---- MODULE Spec2Model ----
(***************************************************************************)
(* Baseline expression code generator of dora (src/baseline/expr.rs).      *)
(*                                                                         *)
(* The generator is modelled as the operator emit_expr, which maps a       *)
(* decorated AST node, a destination and a MacroAssembler state to the     *)
(* MacroAssembler state after emission.  The emitted instruction stream is *)
(* then executed, one instruction per step, on an abstract x86-64 machine  *)
(* (registers, frame slots, heap words, flags), so that properties of the  *)
(* emitted code are properties of reachable machine states.               *)
(***************************************************************************)
EXTENDS Integers, Sequences, FiniteSets, TLC

VARIABLES
    prog,    \* the compilation unit: expression, requested dest
    env,     \* initial values of the locals the expression reads
    out,     \* MacroAssembler state produced by ExprGen::generate
    phase,   \* "new" | "run" | "done" | "trap" | "panic" | "fault" | "unwound"
    pc,      \* index of the next instruction (pos() of the emitted code)
    regs,    \* register file
    frame,   \* frame slots by frame offset (Mem::Local)
    heap,    \* mutable heap words by address
    flags,   \* operands of the last compare
    trap,    \* trap kind and position once a bailout is executed
    log,     \* observable events of the run, in order
    \* the registries of the Context that compiler threads share
    locks,        \* holder of every mutex (0: free)
    thr,          \* position of every compiler thread
    jit_fct,      \* FctSrc.jit_fct of every source function
    compile_stub, \* the lazy-compile stub, once created
    code_map,     \* ctxt.code_map: the registered code
    native_fcts,  \* ctxt.native_fcts: raw pointer -> native stub
    generated,    \* runs of native::generate, per raw pointer
    resolved,     \* the calls of ensure_jit_or_stub_ptr so far
    handed,       \* the native stubs ensure_native_stub returned so far
    \* semck::implck: the impls checked against their trait
    xtrait,       \* the methods of the trait, by trait method id
    impls,        \* ctxt.impls: class, position and methods of every impl
    ximpl,        \* index of the impl being checked
    mtd,          \* index of the next method of that impl
    defined,      \* trait methods the impl methods seen so far matched
    visited,      \* trait methods the loop over all.difference(defined) has seen
    impl_for,     \* impl_for of every impl method (0: None)
    diag          \* ctxt.diag: the diagnostics reported, in order

exprvars == <<prog, env, out, phase, pc, regs, frame, heap, flags, trap, log>>
ctxtvars == <<locks, thr, jit_fct, compile_stub, code_map, native_fcts, generated,
              resolved, handed>>
implvars == <<xtrait, impls, ximpl, mtd, defined, visited, impl_for, diag>>
vars == <<exprvars, ctxtvars, implvars>>

----------------------------------------------------------------------------
(* Registers (cpu): the fixed register convention.                         *)

REG_RESULT == "RAX"
REG_TMP1 == "R10"
REG_TMP2 == "R11"
REG_PARAMS == <<"RDI", "RSI">>
REG_OTHER == "R12"
FREG_RESULT == "XMM0"
FREG_TMP1 == "XMM1"

Range(s) == {s[i] : i \in DOMAIN s}
GpRegs == {REG_RESULT, REG_TMP1, REG_TMP2, REG_OTHER} \cup Range(REG_PARAMS)
FRegs == {FREG_RESULT, FREG_TMP1}
AllRegs == GpRegs \cup FRegs

\* ExprStore::Reg / ExprStore::FReg
StoreReg(r) == [kind |-> "Reg", r |-> r]
StoreFReg(r) == [kind |-> "FReg", r |-> r]

----------------------------------------------------------------------------
(* Marker values of the abstract machine.                                  *)

NIL == 0
JUNK == 0 - 7      \* content of a clobbered register or unwritten slot
STALE == 0 - 9     \* a reference the collector did not update

----------------------------------------------------------------------------
(* Layout constants (mem, object::Header, vtable).                         *)

PTR_WIDTH == 8
HEADER_SIZE == 8
DISPLAY_SIZE == 2
OFFSET_OF_DEPTH == 8
OFFSET_OF_DISPLAY == 16
OFFSET_OF_OVERFLOW == 64

----------------------------------------------------------------------------
(* Class registry: a main chain 1 <- 2 <- 3 <- 4 and a side chain          *)
(* 1 <- 5 <- 6 <- 7.  Parent[c] = 0 for the root.                          *)

Parent == <<0, 1, 2, 3, 1, 5, 6>>
Classes == DOMAIN Parent

RECURSIVE Depth(_)
Depth(c) == IF Parent[c] = 0 THEN 0 ELSE 1 + Depth(Parent[c])

RECURSIVE Ancestors(_)
Ancestors(c) == IF Parent[c] = 0 THEN {c} ELSE {c} \cup Ancestors(Parent[c])

\* S <: T in the source language
IsSubclass(s, t) == t \in Ancestors(s)

\* the ancestor of c at depth d (d <= Depth(c))
AncestorAt(c, d) == CHOOSE a \in Ancestors(c) : Depth(a) = d

VTableAddr(c) == 10000 + 1000 * c
OverflowAddr(c) == VTableAddr(c) + 500

\* The words of the (immutable) VTable of class c, by address.
VTableWord(c, off) ==
    IF off = OFFSET_OF_DEPTH THEN Depth(c)
    ELSE IF off = OFFSET_OF_OVERFLOW
         THEN (IF Depth(c) >= DISPLAY_SIZE THEN OverflowAddr(c) ELSE NIL)
    ELSE IF off >= OFFSET_OF_DISPLAY
            /\ off < OFFSET_OF_DISPLAY + DISPLAY_SIZE * PTR_WIDTH
            /\ (off - OFFSET_OF_DISPLAY) % PTR_WIDTH = 0
         THEN LET i == (off - OFFSET_OF_DISPLAY) \div PTR_WIDTH
              IN IF i <= Depth(c) THEN VTableAddr(AncestorAt(c, i)) ELSE NIL
    ELSE IF off >= 500 /\ (off - 500) % PTR_WIDTH = 0
            /\ Depth(c) >= DISPLAY_SIZE
            /\ (off - 500) \div PTR_WIDTH <= Depth(c) - DISPLAY_SIZE
         THEN VTableAddr(AncestorAt(c, DISPLAY_SIZE + (off - 500) \div PTR_WIDTH))
    ELSE JUNK

IsVTableMem(addr) == addr >= 10000 /\ addr < 10000 + 1000 * (Len(Parent) + 1)
                     /\ addr \div 1000 - 10 \in Classes

VTableMem(addr) == VTableWord(addr \div 1000 - 10, addr % 1000)

----------------------------------------------------------------------------
(* Types (ty::BuiltinType).                                                *)

reference_type(ty) == ty \in {"Str", "Ptr", "ByteArray", "IntArray", "LongArray", "Class"}

is_float(ty) == ty \in {"Float", "Double"}

\* a check_for_nil that takes the reference types for the nullable ones
check_for_nil_refs(ty) == reference_type(ty)

check_for_nil(ty) ==
    ty \in {"Str", "Nil", "Ptr", "ByteArray", "IntArray", "LongArray", "Class"}

----------------------------------------------------------------------------
(* MacroAssembler (masm): instruction stream, label table and metadata.    *)

NewMasm ==
    [code |-> <<>>, labels |-> <<>>, temps |-> {}, gcpoints |-> <<>>,
     linenos |-> <<>>, handlers |-> <<>>, bailouts |-> <<>>, panic |-> "none",
     native_fcts |-> {}, native_gen |-> <<>>]

Ok(st) == st.panic = "none"

\* sequencing: the steps F that follow are applied to the generator state v;
\* after a panic nothing more is emitted
Then(v, F(_)) == IF v.panic = "none" THEN F(v) ELSE v

Panic(st, msg) == IF Ok(st) THEN [st EXCEPT !.panic = msg] ELSE st

\* masm.pos(): position of the next instruction
Pos(st) == Len(st.code) + 1

Ins(st, i) == IF Ok(st) THEN [st EXCEPT !.code = Append(@, i)] ELSE st

\* masm.create_label(): the new label is NextLabel(st)
NextLabel(st) == Len(st.labels) + 1
create_label(st) ==
    IF Ok(st)
    THEN [st EXCEPT !.labels = Append(@, [pos |-> 0, binds |-> 0, uses |-> 0])]
    ELSE st

\* masm.bind_label(l): snapshots pos()
bind_label(st, l) ==
    IF Ok(st)
    THEN [st EXCEPT !.labels[l] = [@ EXCEPT !.pos = Pos(st), !.binds = @ + 1]]
    ELSE st

UseLabel(st, l) ==
    IF Ok(st) THEN [st EXCEPT !.labels[l].uses = @ + 1] ELSE st

LocalMem(off) == [base |-> "fp", disp |-> off]
BaseMem(r, d) == [base |-> r, disp |-> d]

load_int_const(st, mode, d, v) == Ins(st, [op |-> "const", d |-> d, v |-> v])
load_true(st, d) == Ins(st, [op |-> "const", d |-> d, v |-> 1])
load_false(st, d) == Ins(st, [op |-> "const", d |-> d, v |-> 0])
load_nil(st, d) == Ins(st, [op |-> "const", d |-> d, v |-> NIL])
load_float_const(st, mode, d, v) == Ins(st, [op |-> "fconst", d |-> d, v |-> v])
\* add_addr + load_constpool: materialises the pooled address
load_constpool(st, d, addr) == Ins(st, [op |-> "const", d |-> d, v |-> addr])
load_mem(st, mode, d, m) == Ins(st, [op |-> "load", mode |-> mode, d |-> d, m |-> m])
store_mem(st, mode, m, s) == Ins(st, [op |-> "store", mode |-> mode, m |-> m, s |-> s])
loadf_mem(st, mode, d, m) == Ins(st, [op |-> "load", mode |-> mode, d |-> d, m |-> m])
storef_mem(st, mode, m, s) == Ins(st, [op |-> "store", mode |-> mode, m |-> m, s |-> s])
copy_reg(st, mode, d, s) == Ins(st, [op |-> "copy", d |-> d, s |-> s])
cmp_reg(st, mode, a, b) == Ins(st, [op |-> "cmp_reg", a |-> a, b |-> b])
cmp_freg(st, mode, a, b) == Ins(st, [op |-> "cmp_reg", a |-> a, b |-> b])
cmp_mem(st, mode, m, b) == Ins(st, [op |-> "cmp_mem", m |-> m, b |-> b])
cmp_mem_imm(st, mode, m, v) == Ins(st, [op |-> "cmp_mem_imm", m |-> m, v |-> v])
set(st, d, cc) == Ins(st, [op |-> "set", d |-> d, cc |-> cc])
jump(st, l) == UseLabel(Ins(st, [op |-> "jump", l |-> l]), l)
jump_if(st, cc, l) == UseLabel(Ins(st, [op |-> "jump_if", cc |-> cc, l |-> l]), l)
test_and_jump_if(st, cc, r, l) ==
    UseLabel(Ins(st, [op |-> "test_jump", cc |-> cc, r |-> r, l |-> l]), l)
alu(st, f, mode, d, a, b) ==
    Ins(st, [op |-> "alu", f |-> f, mode |-> mode, d |-> d, a |-> a, b |-> b])

\* masm.test_if_nil(reg): creates a label and jumps to it when reg is nil;
\* the label is NextLabel(st) of the state before the call
test_if_nil(st, r) ==
    LET l == NextLabel(st)
    IN test_and_jump_if(create_label(st), "Zero", r, l)

\* masm.emit_bailout(lbl, trap, pos): a trampoline to the trap helper is
\* bound at lbl when the function is finalised
emit_bailout(st, l, t, p) ==
    IF Ok(st)
    THEN [st EXCEPT !.bailouts = Append(@, [l |-> l, trap |-> t, pos |-> p]),
                    !.labels[l].binds = @ + 1]
    ELSE st

\* masm.emit_bailout_inplace(trap, pos)
emit_bailout_inplace(st, t, p) == Ins(st, [op |-> "bailout", trap |-> t, pos |-> p])

\* masm.test_if_nil_bailout(pos, reg, trap)
test_if_nil_bailout(st, p, r, t) ==
    LET l == NextLabel(st)
    IN emit_bailout(test_if_nil(st, r), l, t, p)

emit_lineno(st, line) ==
    IF Ok(st)
    THEN [st EXCEPT !.linenos = Append(@, [pos |-> Pos(st), line |-> line])]
    ELSE st

emit_gcpoint(st, refs) ==
    IF Ok(st)
    THEN [st EXCEPT !.gcpoints = Append(@, [pos |-> Pos(st), refs |-> refs])]
    ELSE st

emit_exception_handler(st, span, catch) ==
    IF Ok(st)
    THEN [st EXCEPT !.handlers =
              Append(@, [try_start |-> span[1], try_end |-> span[2],
                         catch_pc |-> catch, finally |-> 0, ctype |-> "Any"])]
    ELSE st

\* masm.direct_call(fid, ptr) / masm.indirect_call(index).  live records the
\* live-temp set of the generator at the call, for the claims about roots.
direct_call(st, fid, ptr) ==
    Ins(st, [op |-> "call", kind |-> "direct", fid |-> fid, ptr |-> ptr,
             live |-> st.temps])
indirect_call(st, index) ==
    Ins(st, [op |-> "call", kind |-> "indirect", fid |-> 0, ptr |-> index,
             live |-> st.temps])

\* TempOffsets::insert / remove
temps_insert(st, off) == IF Ok(st) THEN [st EXCEPT !.temps = @ \cup {off}] ELSE st
temps_remove(st, off) == IF Ok(st) THEN [st EXCEPT !.temps = @ \ {off}] ELSE st

----------------------------------------------------------------------------
(* The function being compiled (FctSrc) and the registries (Context).      *)

LOCALSIZE == 72
STACKSIZE == 16384

SelfFct == "this_fct"

\* locals of the function: name -> frame offset and type
Vars ==
    [self |-> [offset |-> 0 - 8, ty |-> "Class"],
     a |-> [offset |-> 0 - 16, ty |-> "Bool"],
     b |-> [offset |-> 0 - 24, ty |-> "Bool"],
     i |-> [offset |-> 0 - 32, ty |-> "Int"],
     o |-> [offset |-> 0 - 40, ty |-> "Class"],
     arr |-> [offset |-> 0 - 48, ty |-> "IntArray"],
     larr |-> [offset |-> 0 - 56, ty |-> "LongArray"],
     barr |-> [offset |-> 0 - 64, ty |-> "ByteArray"],
     f |-> [offset |-> 0 - 72, ty |-> "Float"]]

\* Scopes: the reference-typed locals in scope
ScopeVars == {Vars[v].offset : v \in {w \in DOMAIN Vars : reference_type(Vars[w].ty)}}

\* fields of the class of self: name -> offset and type
Fields ==
    [x |-> [offset |-> 8, ty |-> "Int"],
     r |-> [offset |-> 16, ty |-> "Class"],
     y |-> [offset |-> 24, ty |-> "Float"]]

\* ty.mode()
mode(ty) ==
    CASE ty = "Bool" -> "Int8"
      [] ty = "Byte" -> "Int8"
      [] ty = "Int" -> "Int32"
      [] ty = "Long" -> "Int64"
      [] ty = "Float" -> "Float32"
      [] ty = "Double" -> "Float64"
      [] OTHER -> "Ptr"

Intrinsics ==
    {"Assert", "Shl", "SetUint8", "StrLen", "StrGet", "StrSet",
     "ByteArrayLen", "ByteArrayGet", "ByteArraySet",
     "IntArrayLen", "IntArrayGet", "IntArraySet",
     "LongArrayLen", "LongArrayGet", "LongArraySet",
     "BoolToInt", "BoolToLong", "ByteToInt", "ByteToLong",
     "IntToByte", "IntToLong", "LongToByte", "LongToInt",
     "BoolEq", "BoolNot", "ByteEq", "ByteCmp", "ByteNot",
     "IntEq", "IntCmp", "IntAdd", "IntSub", "IntMul", "IntDiv", "IntMod",
     "IntOr", "IntAnd", "IntXor", "IntShl", "IntSar", "IntShr",
     "IntNot", "IntNeg", "IntPlus",
     "LongEq", "LongCmp", "LongAdd", "LongSub", "LongMul", "LongDiv", "LongMod",
     "LongOr", "LongAnd", "LongXor", "LongShl", "LongSar", "LongShr",
     "LongNot", "LongNeg", "LongPlus",
     "FloatEq", "FloatCmp", "FloatAdd", "FloatSub", "FloatMul", "FloatDiv",
     "DoubleEq", "DoubleCmp", "DoubleAdd", "DoubleSub", "DoubleMul", "DoubleDiv"}

\* names of the n-ary source functions sel<n>, which return their last argument
SelName == <<"sel1", "sel2", "sel3", "sel4", "sel5", "sel6">>

\* ctxt.fcts[fid]: a builtin per intrinsic, and the user functions
Fct(fid) ==
    IF fid \in Intrinsics
    THEN [kind |-> "Builtin", intrinsic |-> fid, is_virtual |-> FALSE,
          vtable_index |-> 0, return_type |-> "Int", has_jit |-> FALSE]
    ELSE CASE fid = "k" ->
              [kind |-> "Source", intrinsic |-> "none", is_virtual |-> FALSE,
               vtable_index |-> 0, return_type |-> "Int", has_jit |-> TRUE]
           [] fid \in {"mk", "fresh"} ->
              [kind |-> "Source", intrinsic |-> "none", is_virtual |-> FALSE,
               vtable_index |-> 0, return_type |-> "Class", has_jit |-> FALSE]
           [] fid = "may_throw" ->
              [kind |-> "Source", intrinsic |-> "none", is_virtual |-> FALSE,
               vtable_index |-> 0, return_type |-> "Int", has_jit |-> FALSE]
           [] fid \in {"nat", "nat_alias", "nat2"} ->
              [kind |-> "Native", intrinsic |-> "none", is_virtual |-> FALSE,
               vtable_index |-> 0, return_type |-> "Int", has_jit |-> FALSE]
           [] fid = "virt" ->
              [kind |-> "Source", intrinsic |-> "none", is_virtual |-> TRUE,
               vtable_index |-> 1, return_type |-> "Int", has_jit |-> FALSE]
           [] fid = "ctor" ->
              [kind |-> "Source", intrinsic |-> "none", is_virtual |-> FALSE,
               vtable_index |-> 0, return_type |-> "Unit", has_jit |-> FALSE]
           [] fid = "defn" ->
              [kind |-> "Definition", intrinsic |-> "none", is_virtual |-> FALSE,
               vtable_index |-> 0, return_type |-> "Int", has_jit |-> FALSE]
           [] OTHER ->
              [kind |-> "Source", intrinsic |-> "none", is_virtual |-> FALSE,
               vtable_index |-> 0, return_type |-> "Int", has_jit |-> FALSE]

----------------------------------------------------------------------------
(* Decorated AST.  Every node carries its NodeId and the side-table        *)
(* entries semantic analysis attached to it: ty = src.ty(id), slot =       *)
(* src.get_store(id).offset(), call = map_calls[id], csite =               *)
(* map_csites[id], ident = map_idents[id], conv = map_convs[id].  The      *)
(* children of node id are numbered 8*id + 1 .. 8*id + 7, and slot = 8*id, *)
(* so that no two nodes of one tree share a temp slot.                     *)

NoCall == [some |-> FALSE, fid |-> "none", is_method |-> FALSE]
CallOf(fid, m) == [some |-> TRUE, fid |-> fid, is_method |-> m]
Kid(id, n) == 8 * id + n

Node(k, id, ty) == [k |-> k, id |-> id, ty |-> ty, slot |-> 8 * id]

ExprLitInt(id, v) == Node("LitInt", id, "Int") @@ [suffix |-> "Int", value |-> v]
\* an integer literal with a suffix: 4Y (Byte), 4L (Long)
ExprLitSuffix(id, ty, v) == Node("LitInt", id, ty) @@ [suffix |-> ty, value |-> v]
ExprLitFloat(id, v) == Node("LitFloat", id, "Float") @@ [suffix |-> "Float", value |-> v]
ExprLitBool(id, v) == Node("LitBool", id, "Bool") @@ [value |-> v]
ExprNil(id) == Node("Nil", id, "Nil")
ExprSelf(id) == Node("Self", id, "Class")
ExprIdentVar(id, v) ==
    Node("Ident", id, Vars[v].ty) @@ [ident |-> [kind |-> "Var", var |-> v]]
ExprIdentField(id, f) ==
    Node("Ident", id, Fields[f].ty) @@ [ident |-> [kind |-> "Field", field |-> f]]
ExprField(id, obj, f) ==
    Node("Field", id, Fields[f].ty) @@
    [object |-> obj, ident |-> [kind |-> "Field", field |-> f]]

\* CallSite arguments
ArgExpr(ast) == [kind |-> "Expr", ast |-> ast, ty |-> ast.ty, offset |-> ast.slot]
ArgSelfie(id) == [kind |-> "Selfie", ty |-> "Class", offset |-> 8 * id]
ArgSelfieNew(id, cls) ==
    [kind |-> "SelfieNew", cls_id |-> cls, ty |-> "Class", offset |-> 8 * id]

CallSite(args, callee, rty, super) ==
    [args |-> args, callee |-> callee, return_type |-> rty, super_call |-> super]
CalleeFct(fid) == [kind |-> "Fct", fid |-> fid, ptr |-> "none"]
CalleePtr(p) == [kind |-> "Ptr", fid |-> "none", ptr |-> p]
NoSite == [args |-> <<>>, callee |-> [kind |-> "None", fid |-> "none", ptr |-> "none"],
           return_type |-> "Unit", super_call |-> FALSE]

\* a unary operator: resolved to the intrinsic fid, or to a method of the operand
ExprUn(id, op, opnd, ty, fid) ==
    Node("Un", id, ty) @@
    [op |-> op, opnd |-> opnd, call |-> CallOf(fid, TRUE),
     csite |-> CallSite(<<ArgExpr(opnd)>>, CalleeFct(fid), ty, FALSE)]

\* a binary operator resolved to fid (an intrinsic or a method of lhs)
ExprBin(id, op, lhs, rhs, ty, fid) ==
    Node("Bin", id, ty) @@
    [op |-> op, lhs |-> lhs, rhs |-> rhs,
     call |-> IF fid = "none" THEN NoCall ELSE CallOf(fid, TRUE),
     csite |-> IF fid = "none" THEN NoSite
               ELSE CallSite(<<ArgExpr(lhs), ArgExpr(rhs)>>, CalleeFct(fid), ty, FALSE)]

\* a call obj.fid(args) or fid(args); object = ExprNil(0) stands for None
NoObject == ExprNil(0)
ExprCall(id, object, args, ty, fid, site) ==
    Node("Call", id, ty) @@
    [object |-> object, args |-> args,
     call |-> CallOf(fid, object.id # 0), csite |-> site]

ExprArray(id, object, index, ty, fid) ==
    Node("Array", id, ty) @@
    [object |-> object, index |-> index, call |-> CallOf(fid, TRUE),
     csite |-> CallSite(<<ArgExpr(object), ArgExpr(index)>>, CalleeFct(fid), ty, FALSE)]

\* lhs = rhs; for an array lhs the assignment is resolved to fid
ExprAssign(id, lhs, rhs, fid) ==
    Node("Assign", id, rhs.ty) @@
    [lhs |-> lhs, rhs |-> rhs,
     call |-> IF fid = "none" THEN NoCall ELSE CallOf(fid, TRUE),
     csite |-> IF fid = "none" THEN NoSite
               ELSE CallSite(<<ArgExpr(lhs.object), ArgExpr(lhs.index), ArgExpr(rhs)>>,
                             CalleeFct(fid), "Unit", FALSE)]

ExprConv(id, object, is, valid, cls) ==
    Node("Conv", id, IF is THEN "Bool" ELSE "Class") @@
    [object |-> object, is |-> is, conv |-> [valid |-> valid, cls_id |-> cls]]

\* mode in {"Normal", "Else", "Force", "Opt"}; alt is used by Else only
ExprTry(id, expr, m, alt) ==
    Node("Try", id, expr.ty) @@ [expr |-> expr, mode |-> m, alt |-> alt]

ExprDelegation(id, site) ==
    Node("Delegation", id, "Unit") @@ [call |-> NoCall, csite |-> site]

----------------------------------------------------------------------------
(* ExprGen: the expression generator.  Every emitter maps the generator    *)
(* state st (MacroAssembler state plus the live-temp set) to the state     *)
(* after emission; a panic is absorbing.                                   *)

RECURSIVE emit_expr(_, _, _)

\* ExprStore::reg() / freg(): unreachable!() on the other variant
WithReg(st, dest) == IF dest.kind = "Reg" THEN st ELSE Panic(st, "unreachable")
WithFReg(st, dest) == IF dest.kind = "FReg" THEN st ELSE Panic(st, "unreachable")

\* a frame layout that gives every temporary the same slot
TempOffsetShared(slot) == 0 - (LOCALSIZE + 8)

\* the frame offset reserve_temp_for_node / reserve_temp_for_arg compute
TempOffset(slot) == 0 - (LOCALSIZE + slot)

reserve_temp_for_node(st, expr) ==
    IF reference_type(expr.ty) THEN temps_insert(st, TempOffset(expr.slot)) ELSE st

reserve_temp_for_arg(st, arg) ==
    IF reference_type(arg.ty) THEN temps_insert(st, TempOffset(arg.offset)) ELSE st

\* a free_temp_for_node that forgets to remove the offset
free_temp_for_node_leak(st, expr, offset) == st

free_temp_for_node(st, expr, offset) ==
    IF reference_type(expr.ty) THEN temps_remove(st, offset) ELSE st

free_temp_with_type(st, ty, offset) ==
    IF reference_type(ty) THEN temps_remove(st, offset) ELSE st

intrinsic(e) ==
    IF ~e.call.some THEN "none"
    ELSE IF e.call.fid = SelfFct THEN "none"
    ELSE IF Fct(e.call.fid).kind = "Builtin" THEN Fct(e.call.fid).intrinsic
    ELSE "none"

emit_self(st, dest) ==
    load_mem(st, mode(Vars.self.ty), dest, LocalMem(Vars.self.offset))

emit_nil(st, dest) == load_nil(st, dest)

emit_field_access(st, f, src, dest) ==
    load_mem(WithReg(st, dest), mode(Fields[f].ty), dest.r, BaseMem(src, Fields[f].offset))

emit_field(e, dest, st) ==
    Then(emit_expr(e.object, StoreReg(REG_RESULT), st), LAMBDA s1 :
         emit_field_access(s1, e.ident.field, REG_RESULT, dest))

emit_lit_int(e, dest, st) ==
    load_int_const(st, IF e.suffix = "Byte" THEN "Int8"
                       ELSE IF e.suffix = "Int" THEN "Int32" ELSE "Int64",
                   dest, e.value)

emit_lit_float(e, dest, st) ==
    load_float_const(st, IF e.suffix = "Float" THEN "Float32" ELSE "Float64",
                     dest, e.value)

emit_lit_bool(e, dest, st) ==
    IF e.value THEN load_true(st, dest) ELSE load_false(st, dest)

\* codegen::var_load / var_store
var_load(st, v, dest) == load_mem(st, mode(Vars[v].ty), dest, LocalMem(Vars[v].offset))
var_store(st, src, v) == store_mem(st, mode(Vars[v].ty), LocalMem(Vars[v].offset), src)

emit_ident(e, dest, st) ==
    IF e.ident.kind = "Var"
    THEN var_load(WithReg(st, dest), e.ident.var, dest.r)
    ELSE IF e.ident.kind = "Field"
    THEN emit_field_access(emit_self(st, REG_RESULT), e.ident.field, REG_RESULT, dest)
    ELSE Panic(st, "unimplemented")

\* an emit_try without the jump past the catch code
emit_try_fall_into_catch(e, dest, st) ==
    IF e.mode = "Normal" THEN emit_expr(e.expr, dest, st)
    ELSE IF e.mode = "Else" THEN
        LET lbl_after == NextLabel(st)
            start == Pos(st)
        IN Then(emit_expr(e.expr, dest, create_label(st)), LAMBDA s2 :
           Then(emit_expr(e.alt, dest, s2), LAMBDA s4 :
                bind_label(emit_exception_handler(s4, <<start, Pos(s2)>>, Pos(s2)),
                           lbl_after)))
    ELSE IF e.mode = "Force" THEN
        LET lbl_after == NextLabel(st)
            start == Pos(st)
        IN Then(emit_expr(e.expr, dest, create_label(st)), LAMBDA s2 :
                LET s4 == emit_bailout_inplace(s2, "UNEXPECTED", e.id)
                    s5 == emit_exception_handler(s4, <<start, Pos(s2)>>, Pos(s2))
                IN bind_label(s5, lbl_after))
    ELSE Panic(st, "unsupported")

\* an emit_try that reads the end of the try span after the jump
emit_try_end_after_jump(e, dest, st) ==
    IF e.mode = "Normal" THEN emit_expr(e.expr, dest, st)
    ELSE IF e.mode = "Else" THEN
        LET lbl_after == NextLabel(st)
            start == Pos(st)
        IN Then(emit_expr(e.expr, dest, create_label(st)), LAMBDA s2 :
           Then(emit_expr(e.alt, dest, jump(s2, lbl_after)), LAMBDA s4 :
                bind_label(emit_exception_handler(s4, <<start, Pos(s2) + 1>>, Pos(s2) + 1),
                           lbl_after)))
    ELSE IF e.mode = "Force" THEN
        LET lbl_after == NextLabel(st)
            start == Pos(st)
        IN Then(emit_expr(e.expr, dest, create_label(st)), LAMBDA s2 :
                LET s3 == jump(s2, lbl_after)
                    s4 == emit_bailout_inplace(s3, "UNEXPECTED", e.id)
                    s5 == emit_exception_handler(s4, <<start, Pos(s2) + 1>>, Pos(s2) + 1)
                IN bind_label(s5, lbl_after))
    ELSE Panic(st, "unsupported")

\* an emit_try whose try span of Else ends after the alternative
emit_try_span_over_catch(e, dest, st) ==
    IF e.mode = "Normal" THEN emit_expr(e.expr, dest, st)
    ELSE IF e.mode = "Else" THEN
        LET lbl_after == NextLabel(st)
            start == Pos(st)
        IN Then(emit_expr(e.expr, dest, create_label(st)), LAMBDA s2 :
           Then(emit_expr(e.alt, dest, jump(s2, lbl_after)), LAMBDA s4 :
                bind_label(emit_exception_handler(s4, <<start, Pos(s4)>>, Pos(s2) + 1),
                           lbl_after)))
    ELSE IF e.mode = "Force" THEN
        LET lbl_after == NextLabel(st)
            start == Pos(st)
        IN Then(emit_expr(e.expr, dest, create_label(st)), LAMBDA s2 :
                LET s3 == jump(s2, lbl_after)
                    s4 == emit_bailout_inplace(s3, "UNEXPECTED", e.id)
                    s5 == emit_exception_handler(s4, <<start, Pos(s2)>>, Pos(s2) + 1)
                IN bind_label(s5, lbl_after))
    ELSE Panic(st, "unsupported")

emit_try(e, dest, st) ==
    IF e.mode = "Normal" THEN emit_expr(e.expr, dest, st)
    ELSE IF e.mode = "Else" THEN
        LET lbl_after == NextLabel(st)
            start == Pos(st)
        IN Then(emit_expr(e.expr, dest, create_label(st)), LAMBDA s2 :
           Then(emit_expr(e.alt, dest, jump(s2, lbl_after)), LAMBDA s4 :
                bind_label(emit_exception_handler(s4, <<start, Pos(s2)>>, Pos(s2) + 1),
                           lbl_after)))
    ELSE IF e.mode = "Force" THEN
        LET lbl_after == NextLabel(st)
            start == Pos(st)
        IN Then(emit_expr(e.expr, dest, create_label(st)), LAMBDA s2 :
                LET s3 == jump(s2, lbl_after)
                    s4 == emit_bailout_inplace(s3, "UNEXPECTED", e.id)
                    s5 == emit_exception_handler(s4, <<start, Pos(s2)>>, Pos(s2) + 1)
                IN bind_label(s5, lbl_after))
    ELSE Panic(st, "unsupported")

\* a conversion lowered without its run-time check
emit_conv_unchecked(e, dest, s2) == IF e.is THEN load_true(s2, dest) ELSE s2

\* emit_conv, the arm for a conversion not proven valid at compile time
emit_conv_check(e, dest, s2) ==
    LET cls_id == e.conv.cls_id
        vtable == VTableAddr(cls_id)
        subtype_depth == Depth(cls_id)
        offset == IF e.is THEN 0 ELSE TempOffset(e.object.slot)
        s3 == IF e.is THEN s2
              ELSE store_mem(reserve_temp_for_node(s2, e.object), "Ptr",
                             LocalMem(offset), dest)
        s4 == load_mem(s3, "Ptr", REG_TMP1, BaseMem(dest, 0))
        s5 == load_constpool(s4, REG_TMP2, vtable)
        s6 == Then(s5, LAMBDA c5 : IF subtype_depth >= DISPLAY_SIZE THEN
                  LET o1 == cmp_mem_imm(c5, "Int32", BaseMem(REG_TMP1, OFFSET_OF_DEPTH),
                                        subtype_depth)
                      lbl_false == NextLabel(c5)
                      o2 == jump_if(create_label(o1), "Less", lbl_false)
                      o3 == load_mem(o2, "Ptr", REG_TMP1,
                                     BaseMem(REG_TMP1, OFFSET_OF_OVERFLOW))
                      overflow_offset == PTR_WIDTH * (subtype_depth - DISPLAY_SIZE)
                      o4 == cmp_mem(o3, "Ptr", BaseMem(REG_TMP1, overflow_offset), REG_TMP2)
                      o5 == Then(o4, LAMBDA s :
                                 IF e.is THEN set(s, dest, "Equal")
                                 ELSE load_mem(jump_if(s, "NonZero", lbl_false), "Ptr",
                                               dest, LocalMem(offset)))
                  IN Then(o5, LAMBDA s :
                       LET lbl_finished == NextLabel(s)
                           o6 == jump(create_label(s), lbl_finished)
                           o7 == bind_label(o6, lbl_false)
                       IN Then(o7, LAMBDA t :
                            bind_label(IF e.is THEN load_false(t, dest)
                                       ELSE emit_bailout_inplace(t, "CAST", e.id),
                                       lbl_finished)))
              ELSE
                  LET display_entry == OFFSET_OF_DISPLAY + subtype_depth * PTR_WIDTH
                      d1 == cmp_mem(c5, "Ptr", BaseMem(REG_TMP1, display_entry), REG_TMP2)
                      lbl_bailout == NextLabel(c5)
                  IN IF e.is THEN set(d1, dest, "Equal")
                     ELSE load_mem(emit_bailout(jump_if(create_label(d1), "NotEqual",
                                                        lbl_bailout),
                                                lbl_bailout, "CAST", e.id),
                                   "Ptr", dest, LocalMem(offset)))
    IN Then(s6, LAMBDA s : IF e.is THEN s ELSE free_temp_for_node(s, e.object, offset))

\* a conversion lowered without the test for nil
emit_conv_no_nil_test(e, dest, st) ==
    Then(emit_expr(e.object, StoreReg(dest), st), LAMBDA s1 :
         bind_label(IF e.conv.valid
                    THEN (IF e.is THEN load_true(create_label(s1), dest)
                          ELSE create_label(s1))
                    ELSE emit_conv_check(e, dest, create_label(s1)),
                    NextLabel(s1)))

emit_conv(e, dest, st) ==
    Then(emit_expr(e.object, StoreReg(dest), st), LAMBDA s1 :
         bind_label(IF e.conv.valid
                    THEN (IF e.is THEN load_true(test_if_nil(s1, dest), dest)
                          ELSE test_if_nil(s1, dest))
                    ELSE emit_conv_check(e, dest, test_if_nil(s1, dest)),
                    NextLabel(s1)))

CmpOps == {"Eq", "Ne", "Gt", "Ge", "Lt", "Le", "Is", "IsNot"}

\* a to_cond_code that takes < for > and <= for >=
to_cond_code_swapped(cmp) ==
    CASE cmp = "Eq" -> "Equal"
      [] cmp = "Ne" -> "NotEqual"
      [] cmp = "Gt" -> "Less"
      [] cmp = "Ge" -> "LessEq"
      [] cmp = "Lt" -> "Greater"
      [] cmp = "Le" -> "GreaterEq"
      [] cmp = "Is" -> "Equal"
      [] cmp = "IsNot" -> "NotEqual"

to_cond_code(cmp) ==
    CASE cmp = "Eq" -> "Equal"
      [] cmp = "Ne" -> "NotEqual"
      [] cmp = "Gt" -> "Greater"
      [] cmp = "Ge" -> "GreaterEq"
      [] cmp = "Lt" -> "Less"
      [] cmp = "Le" -> "LessEq"
      [] cmp = "Is" -> "Equal"
      [] cmp = "IsNot" -> "NotEqual"

\* an || whose test of the left operand has the wrong condition
emit_bin_or_inverted(e, dest, st) ==
    LET lbl_true == NextLabel(st)
        lbl_false == lbl_true + 1
        lbl_end == lbl_true + 2
    IN Then(emit_expr(e.lhs, StoreReg(REG_RESULT),
                      create_label(create_label(create_label(st)))), LAMBDA s1 :
       Then(emit_expr(e.rhs, StoreReg(REG_RESULT),
                      test_and_jump_if(s1, "Zero", REG_RESULT, lbl_true)), LAMBDA s3 :
            LET s4 == test_and_jump_if(s3, "Zero", REG_RESULT, lbl_false)
                s5 == jump(load_true(bind_label(s4, lbl_true), dest), lbl_end)
                s6 == load_false(bind_label(s5, lbl_false), dest)
            IN bind_label(s6, lbl_end)))

emit_bin_or(e, dest, st) ==
    LET lbl_true == NextLabel(st)
        lbl_false == lbl_true + 1
        lbl_end == lbl_true + 2
    IN Then(emit_expr(e.lhs, StoreReg(REG_RESULT),
                      create_label(create_label(create_label(st)))), LAMBDA s1 :
       Then(emit_expr(e.rhs, StoreReg(REG_RESULT),
                      test_and_jump_if(s1, "NonZero", REG_RESULT, lbl_true)), LAMBDA s3 :
            LET s4 == test_and_jump_if(s3, "Zero", REG_RESULT, lbl_false)
                s5 == jump(load_true(bind_label(s4, lbl_true), dest), lbl_end)
                s6 == load_false(bind_label(s5, lbl_false), dest)
            IN bind_label(s6, lbl_end)))

\* an && that does not jump over load_false after load_true
emit_bin_and_fallthrough(e, dest, st) ==
    LET lbl_true == NextLabel(st)
        lbl_false == lbl_true + 1
        lbl_end == lbl_true + 2
    IN Then(emit_expr(e.lhs, StoreReg(REG_RESULT),
                      create_label(create_label(create_label(st)))), LAMBDA s1 :
       Then(emit_expr(e.rhs, StoreReg(REG_RESULT),
                      test_and_jump_if(s1, "Zero", REG_RESULT, lbl_false)), LAMBDA s3 :
            LET s4 == test_and_jump_if(s3, "Zero", REG_RESULT, lbl_false)
                s5 == load_true(bind_label(s4, lbl_true), dest)
                s6 == load_false(bind_label(s5, lbl_false), dest)
            IN bind_label(s6, lbl_end)))

emit_bin_and(e, dest, st) ==
    LET lbl_true == NextLabel(st)
        lbl_false == lbl_true + 1
        lbl_end == lbl_true + 2
    IN Then(emit_expr(e.lhs, StoreReg(REG_RESULT),
                      create_label(create_label(create_label(st)))), LAMBDA s1 :
       Then(emit_expr(e.rhs, StoreReg(REG_RESULT),
                      test_and_jump_if(s1, "Zero", REG_RESULT, lbl_false)), LAMBDA s3 :
            LET s4 == test_and_jump_if(s3, "Zero", REG_RESULT, lbl_false)
                s5 == jump(load_true(bind_label(s4, lbl_true), dest), lbl_end)
                s6 == load_false(bind_label(s5, lbl_false), dest)
            IN bind_label(s6, lbl_end)))

----------------------------------------------------------------------------
(* Stub manager: lazy-compile stub, native stubs.                          *)

JitPtr(fid) == [k |-> "jit", f |-> fid]
StubPtr == [k |-> "stub", f |-> "none"]
NativeStubPtr(ptr) == [k |-> "native", f |-> ptr]

\* raw pointer of a FctKind::Native function
NativePtr(fid) == IF fid = "nat2" THEN "nat_ptr2" ELSE "nat_ptr"

\* ensure_native_stub: the cache native_fcts is keyed by the raw pointer
ensure_native_stub(st, ptr) ==
    IF ~Ok(st) \/ ptr \in st.native_fcts THEN st
    ELSE [st EXCEPT !.native_fcts = @ \cup {ptr}, !.native_gen = Append(@, ptr)]

ensure_jit_or_stub_ptr(fid) == IF Fct(fid).has_jit THEN JitPtr(fid) ELSE StubPtr

\* ptr_for_fct_id: the pointer returned, and its effect on the generator state
ptr_for_fct_id(fid) ==
    IF fid = SelfFct THEN ensure_jit_or_stub_ptr(fid)
    ELSE IF Fct(fid).kind = "Native" THEN NativeStubPtr(NativePtr(fid))
    ELSE ensure_jit_or_stub_ptr(fid)

ptr_for_fct_id_effect(st, fid) ==
    IF fid = SelfFct THEN st
    ELSE CASE Fct(fid).kind = "Source" -> st
           [] Fct(fid).kind = "Native" -> ensure_native_stub(st, NativePtr(fid))
           [] Fct(fid).kind = "Definition" -> Panic(st, "unreachable")
           [] Fct(fid).kind = "Builtin" -> Panic(st, "intrinsic fct call")

----------------------------------------------------------------------------
(* Call instructions.                                                      *)

\* codegen::create_gcpoint(scopes, temps)
create_gcpoint(temps) == ScopeVars \cup temps

\* an emit_after_call_insns whose GC point leaves the temporaries out
emit_after_call_insns_scopes_only(st, pos, ty, dest) ==
    Then(emit_lineno(st, pos), LAMBDA s1 :
    Then(WithReg(emit_gcpoint(s1, create_gcpoint({})), dest), LAMBDA s3 :
         IF REG_RESULT # dest.r THEN copy_reg(s3, mode(ty), dest.r, REG_RESULT) ELSE s3))

emit_after_call_insns(st, pos, ty, dest) ==
    Then(emit_lineno(st, pos), LAMBDA s1 :
    Then(WithReg(emit_gcpoint(s1, create_gcpoint(s1.temps)), dest), LAMBDA s3 :
         IF REG_RESULT # dest.r THEN copy_reg(s3, mode(ty), dest.r, REG_RESULT) ELSE s3))

emit_direct_call_insn(st, fid, ptr, pos, ty, dest) ==
    emit_after_call_insns(direct_call(st, fid, ptr), pos, ty, dest)

emit_indirect_call_insn(st, index, pos, ty, dest) ==
    emit_after_call_insns(indirect_call(st, index), pos, ty, dest)

emit_native_call_insn(st, ptr, pos, ty, args, dest) ==
    emit_direct_call_insn(ensure_native_stub(st, ptr), "fct0", NativeStubPtr(ptr),
                          pos, ty, dest)

ClassSize(cls) == 32

\* a SelfieNew argument whose VTable store comes before the OOM check
emit_call_arg_store_before_check(arg, pos, dest, st) ==
    CASE arg.kind = "Expr" -> emit_expr(arg.ast, StoreReg(REG_RESULT), st)
      [] arg.kind = "Selfie" -> emit_self(st, REG_RESULT)
      [] arg.kind = "SelfieNew" ->
         LET a1 == load_int_const(st, "Int32", REG_PARAMS[1], ClassSize(arg.cls_id))
             a2 == emit_native_call_insn(a1, "gc_alloc", pos, "Ptr", 1, dest)
             a3 == load_constpool(a2, REG_TMP1, VTableAddr(arg.cls_id))
             a4 == store_mem(a3, "Ptr", BaseMem(REG_RESULT, 0), REG_TMP1)
         IN test_if_nil_bailout(WithReg(a4, dest), pos, dest.r, "OOM")

\* emit_universal_call, the code of one argument: its value in REG_RESULT
emit_call_arg(arg, pos, dest, st) ==
    CASE arg.kind = "Expr" -> emit_expr(arg.ast, StoreReg(REG_RESULT), st)
      [] arg.kind = "Selfie" -> emit_self(st, REG_RESULT)
      [] arg.kind = "SelfieNew" ->
         LET a1 == load_int_const(st, "Int32", REG_PARAMS[1], ClassSize(arg.cls_id))
             a2 == emit_native_call_insn(a1, "gc_alloc", pos, "Ptr", 1, dest)
             a3 == test_if_nil_bailout(WithReg(a2, dest), pos, dest.r, "OOM")
             a4 == load_constpool(a3, REG_TMP1, VTableAddr(arg.cls_id))
         IN store_mem(a4, "Ptr", BaseMem(REG_RESULT, 0), REG_TMP1)

\* emit_universal_call, the loop that evaluates and spills the arguments
RECURSIVE emit_call_args(_, _, _, _, _)
emit_call_args(args, k, pos, dest, st) ==
    IF ~Ok(st) \/ k > Len(args) THEN st
    ELSE Then(emit_call_arg(args[k], pos, dest, st), LAMBDA s1 :
         Then(store_mem(reserve_temp_for_arg(s1, args[k]), mode(args[k].ty),
                        LocalMem(TempOffset(args[k].offset)), REG_RESULT), LAMBDA s2 :
              emit_call_args(args, k + 1, pos, dest, s2)))

\* emit_universal_call, the loop that marshals the spilled arguments
RECURSIVE marshal_args(_, _, _, _, _, _)
marshal_args(e, args, k, arg_offset, pos, st) ==
    IF ~Ok(st) \/ k > Len(args) THEN st
    ELSE
      LET ty == args[k].ty
          offset == TempOffset(args[k].offset)
      IN IF k <= Len(REG_PARAMS)
         THEN LET reg == REG_PARAMS[k]
                  s1 == load_mem(st, mode(ty), reg, LocalMem(offset))
                  s2 == IF k = 1 /\ e.call.some /\ e.call.is_method /\ check_for_nil(ty)
                        THEN test_if_nil_bailout(s1, pos, reg, "NIL")
                        ELSE s1
              IN marshal_args(e, args, k + 1, arg_offset, pos, s2)
         ELSE LET s1 == load_mem(st, mode(ty), REG_TMP1, LocalMem(offset))
                  s2 == store_mem(s1, mode(ty), LocalMem(arg_offset), REG_TMP1)
              IN marshal_args(e, args, k + 1, arg_offset + 8, pos, s2)

\* a dispatch that looks at is_virtual before super_call
emit_call_dispatch_virtual_first(e, pos, dest, st) ==
    LET csite == e.csite
        fid == csite.callee.fid
    IN IF csite.callee.kind = "Fct"
       THEN IF Fct(fid).is_virtual
            THEN emit_indirect_call_insn(st, Fct(fid).vtable_index, pos,
                                         csite.return_type, dest)
            ELSE emit_direct_call_insn(ptr_for_fct_id_effect(st, fid), fid,
                                       ptr_for_fct_id(fid), pos, csite.return_type, dest)
       ELSE emit_native_call_insn(st, csite.callee.ptr, pos, csite.return_type,
                                  Len(csite.args), dest)

\* emit_universal_call, the choice of the call instruction
emit_call_dispatch(e, pos, dest, st) ==
    LET csite == e.csite
        fid == csite.callee.fid
    IN IF csite.callee.kind = "Fct"
       THEN IF csite.super_call
            THEN emit_direct_call_insn(ptr_for_fct_id_effect(st, fid), fid,
                                       ptr_for_fct_id(fid), pos, csite.return_type, dest)
            ELSE IF Fct(fid).is_virtual
            THEN emit_indirect_call_insn(st, Fct(fid).vtable_index, pos,
                                         csite.return_type, dest)
            ELSE emit_direct_call_insn(ptr_for_fct_id_effect(st, fid), fid,
                                       ptr_for_fct_id(fid), pos, csite.return_type, dest)
       ELSE emit_native_call_insn(st, csite.callee.ptr, pos, csite.return_type,
                                  Len(csite.args), dest)

RECURSIVE free_call_temps(_, _, _)
free_call_temps(args, k, st) ==
    IF ~Ok(st) \/ k > Len(args) THEN st
    ELSE free_call_temps(args, k + 1,
                         free_temp_with_type(st, args[k].ty, TempOffset(args[k].offset)))

\* an emit_universal_call that leaves the callee's result in dest
emit_universal_call_callee_result(e, pos, dest, st) ==
    Then(emit_call_args(e.csite.args, 1, pos, dest, st), LAMBDA s1 :
    Then(marshal_args(e, e.csite.args, 1, 0 - STACKSIZE, pos, s1), LAMBDA s2 :
    Then(emit_call_dispatch(e, pos, dest, s2), LAMBDA s3 :
         free_call_temps(e.csite.args, 1, s3))))

emit_universal_call(e, pos, dest, st) ==
    Then(emit_call_args(e.csite.args, 1, pos, dest, st), LAMBDA s1 :
    Then(marshal_args(e, e.csite.args, 1, 0 - STACKSIZE, pos, s1), LAMBDA s2 :
    Then(emit_call_dispatch(e, pos, dest, s2), LAMBDA s3 :
         free_call_temps(e.csite.args, 1,
             IF Len(e.csite.args) > 0 /\ e.csite.args[1].kind = "SelfieNew"
             THEN load_mem(WithReg(s3, dest), mode(e.csite.args[1].ty), dest.r,
                           LocalMem(TempOffset(e.csite.args[1].offset)))
             ELSE s3))))

emit_delegation(e, dest, st) == emit_universal_call(e, e.id, dest, st)

----------------------------------------------------------------------------
(* Intrinsics and arrays.                                                  *)

check_index_out_of_bounds(st, pos, arr, idx, tmp) ==
    Ins(st, [op |-> "check_bounds", arr |-> arr, idx |-> idx, tmp |-> tmp, pos |-> pos])
load_array_elem(st, m, d, arr, idx) ==
    Ins(st, [op |-> "load_elem", mode |-> m, d |-> d, arr |-> arr, idx |-> idx])
store_array_elem(st, m, arr, idx, v) ==
    Ins(st, [op |-> "store_elem", mode |-> m, arr |-> arr, idx |-> idx, s |-> v])

\* ctxt.args.flag_omit_bounds_check
flag_omit_bounds_check == prog.omit

emit_array_set(pos, m, object, index, rhs, dest, st) ==
    LET offset_object == TempOffset(object.slot)
        offset_index == TempOffset(index.slot)
        offset_value == TempOffset(rhs.slot)
    IN Then(emit_expr(object, StoreReg(REG_RESULT), st), LAMBDA s1 :
       Then(emit_expr(index, StoreReg(REG_RESULT),
                      store_mem(reserve_temp_for_node(s1, object), "Ptr",
                                LocalMem(offset_object), REG_RESULT)), LAMBDA s3 :
       Then(emit_expr(rhs, StoreReg(REG_RESULT),
                      store_mem(reserve_temp_for_node(s3, index), "Int32",
                                LocalMem(offset_index), REG_RESULT)), LAMBDA s5 :
       Then(load_mem(load_mem(store_mem(reserve_temp_for_node(s5, rhs), m,
                                        LocalMem(offset_value), REG_RESULT),
                              "Ptr", REG_TMP1, LocalMem(offset_object)),
                     "Int32", REG_TMP2, LocalMem(offset_index)), LAMBDA s8 :
            LET s9 == IF ~flag_omit_bounds_check
                      THEN check_index_out_of_bounds(s8, pos, REG_TMP1, REG_TMP2,
                                                     REG_RESULT)
                      ELSE s8
                s10 == load_mem(s9, m, REG_RESULT, LocalMem(offset_value))
                s11 == store_array_elem(s10, m, REG_TMP1, REG_TMP2, REG_RESULT)
                s12 == free_temp_for_node(s11, object, offset_object)
                s13 == free_temp_for_node(s12, index, offset_index)
                s14 == free_temp_for_node(s13, rhs, offset_value)
            IN IF dest # REG_RESULT THEN copy_reg(s14, m, dest, REG_RESULT) ELSE s14))))

\* an emit_array_get that checks the index after the element is read
emit_array_get_check_after_access(pos, m, object, index, dest, st) ==
    LET offset == TempOffset(object.slot)
    IN Then(emit_expr(object, StoreReg(REG_RESULT), st), LAMBDA s1 :
       Then(emit_expr(index, StoreReg(REG_TMP1),
                      store_mem(reserve_temp_for_node(s1, object), "Ptr",
                                LocalMem(offset), REG_RESULT)), LAMBDA s3 :
       Then(load_mem(s3, "Ptr", REG_RESULT, LocalMem(offset)), LAMBDA s4 :
            LET s5 == load_array_elem(s4, m, REG_TMP2, REG_RESULT, REG_TMP1)
                s6 == IF ~flag_omit_bounds_check
                      THEN check_index_out_of_bounds(s5, pos, REG_RESULT, REG_TMP1,
                                                     REG_RESULT)
                      ELSE s5
                s7 == free_temp_for_node(copy_reg(s6, m, REG_RESULT, REG_TMP2),
                                         object, offset)
            IN IF dest # REG_RESULT THEN copy_reg(s7, m, dest, REG_RESULT) ELSE s7)))

emit_array_get(pos, m, object, index, dest, st) ==
    LET offset == TempOffset(object.slot)
    IN Then(emit_expr(object, StoreReg(REG_RESULT), st), LAMBDA s1 :
       Then(emit_expr(index, StoreReg(REG_TMP1),
                      store_mem(reserve_temp_for_node(s1, object), "Ptr",
                                LocalMem(offset), REG_RESULT)), LAMBDA s3 :
       Then(load_mem(s3, "Ptr", REG_RESULT, LocalMem(offset)), LAMBDA s4 :
            LET s5 == IF ~flag_omit_bounds_check
                      THEN check_index_out_of_bounds(s4, pos, REG_RESULT, REG_TMP1,
                                                     REG_TMP2)
                      ELSE s4
                s6 == load_array_elem(s5, m, REG_RESULT, REG_RESULT, REG_TMP1)
                s7 == free_temp_for_node(s6, object, offset)
            IN IF dest # REG_RESULT THEN copy_reg(s7, m, dest, REG_RESULT) ELSE s7)))

emit_array(e, dest, st) ==
    LET intr == intrinsic(e)
    IN IF intr = "none" THEN emit_universal_call(e, e.id, dest, st)
       ELSE IF intr = "LongArrayGet"
       THEN emit_array_get(e.id, "Int64", e.object, e.index, dest.r, WithReg(st, dest))
       ELSE IF intr = "IntArrayGet"
       THEN emit_array_get(e.id, "Int32", e.object, e.index, dest.r, WithReg(st, dest))
       ELSE IF intr \in {"ByteArrayGet", "StrGet"}
       THEN emit_array_get(e.id, "Int8", e.object, e.index, dest.r, WithReg(st, dest))
       ELSE Panic(st, "unexpected intrinsic")

emit_set_uint8(e, dest, st) ==
    LET offset == TempOffset(e.args[1].slot)
    IN Then(emit_expr(e.args[1], StoreReg(REG_RESULT), st), LAMBDA s1 :
       Then(emit_expr(e.args[2], StoreReg(REG_TMP1),
                      store_mem(reserve_temp_for_node(s1, e.args[1]), "Int64",
                                LocalMem(offset), REG_RESULT)), LAMBDA s3 :
            store_mem(load_mem(s3, "Int64", REG_RESULT, LocalMem(offset)),
                      "Int8", BaseMem(REG_RESULT, 0), REG_TMP1)))

emit_intrinsic_len(e, dest, st) ==
    Then(emit_expr(e.object, StoreReg(REG_RESULT), st), LAMBDA s1 :
         load_mem(test_if_nil_bailout(s1, e.id, REG_RESULT, "NIL"),
                  "Ptr", dest, BaseMem(REG_RESULT, HEADER_SIZE)))

\* an assert whose label is never handed to emit_bailout
emit_intrinsic_assert_unbound(e, dest, st) ==
    LET lbl_div == NextLabel(st)
    IN Then(emit_expr(e.args[1], StoreReg(REG_RESULT), create_label(st)), LAMBDA s1 :
            test_and_jump_if(s1, "Zero", REG_RESULT, lbl_div))

\* an assert that bails out when its argument is true
emit_intrinsic_assert_inverted(e, dest, st) ==
    LET lbl_div == NextLabel(st)
    IN Then(emit_expr(e.args[1], StoreReg(REG_RESULT), create_label(st)), LAMBDA s1 :
            emit_bailout(test_and_jump_if(s1, "NonZero", REG_RESULT, lbl_div),
                         lbl_div, "ASSERT", e.id))

emit_intrinsic_assert(e, dest, st) ==
    LET lbl_div == NextLabel(st)
    IN Then(emit_expr(e.args[1], StoreReg(REG_RESULT), create_label(st)), LAMBDA s1 :
            emit_bailout(test_and_jump_if(s1, "Zero", REG_RESULT, lbl_div),
                         lbl_div, "ASSERT", e.id))

emit_intrinsic_shl(e, dest, st) ==
    LET offset == TempOffset(e.args[1].slot)
    IN Then(emit_expr(e.args[1], StoreReg(REG_RESULT), st), LAMBDA s1 :
       Then(emit_expr(e.args[2], StoreReg(REG_TMP1),
                      store_mem(reserve_temp_for_node(s1, e.args[1]), "Int32",
                                LocalMem(offset), REG_RESULT)), LAMBDA s3 :
            alu(load_mem(s3, "Int32", REG_RESULT, LocalMem(offset)),
                "shl", "Int32", dest, REG_RESULT, REG_TMP1)))

emit_intrinsic_long_to_int(e, dest, st) == emit_expr(e.object, StoreReg(dest), st)

emit_intrinsic_long_to_byte(e, dest, st) ==
    alu(emit_expr(e.object, StoreReg(dest), st), "extend_byte", "Int32", dest, dest, dest)

emit_intrinsic_int_to_byte(e, dest, st) ==
    alu(emit_expr(e.object, StoreReg(dest), st), "extend_byte", "Int32", dest, dest, dest)

emit_intrinsic_int_to_long(e, dest, st) ==
    alu(emit_expr(e.object, StoreReg(REG_RESULT), st), "extend_int_long", "Int64",
        dest, REG_RESULT, REG_RESULT)

emit_intrinsic_byte_to_int(e, dest, st) ==
    alu(emit_expr(e.object, StoreReg(dest), st), "extend_byte", "Int32", dest, dest, dest)

emit_intrinsic_byte_to_long(e, dest, st) ==
    alu(emit_expr(e.object, StoreReg(dest), st), "extend_byte", "Int64", dest, dest, dest)

\* the arithmetic arms of emit_intrinsic_int: intrinsic -> masm operation
IntArith ==
    [IntAdd |-> "add", IntSub |-> "sub", IntMul |-> "mul", IntDiv |-> "div",
     IntMod |-> "mod", IntOr |-> "or", IntAnd |-> "and", IntXor |-> "xor",
     IntShl |-> "shl", IntSar |-> "sar", IntShr |-> "shr",
     LongAdd |-> "add", LongSub |-> "sub", LongMul |-> "mul", LongDiv |-> "div",
     LongMod |-> "mod", LongOr |-> "or", LongAnd |-> "and", LongXor |-> "xor",
     LongShl |-> "shl", LongSar |-> "sar", LongShr |-> "shr"]
LongIntrinsics ==
    {"LongAdd", "LongSub", "LongMul", "LongDiv", "LongMod", "LongOr", "LongAnd",
     "LongXor", "LongShl", "LongSar", "LongShr"}

emit_intrinsic_int(st, dest, lhs, rhs, intr, op) ==
    IF intr \in {"ByteEq", "BoolEq", "IntEq", "LongEq"}
    THEN LET m == IF intr = "LongEq" THEN "Int64" ELSE "Int32"
             cond_code == IF op \in CmpOps THEN to_cond_code(op) ELSE "Equal"
         IN set(cmp_reg(st, m, lhs, rhs), dest, cond_code)
    ELSE IF intr \in {"ByteCmp", "IntCmp", "LongCmp"}
    THEN LET m == IF intr = "LongCmp" THEN "Int64" ELSE "Int32"
         IN IF op \in CmpOps
            THEN set(cmp_reg(st, m, lhs, rhs), dest, to_cond_code(op))
            ELSE alu(st, "sub", m, dest, lhs, rhs)
    ELSE IF intr \in DOMAIN IntArith
    THEN alu(st, IntArith[intr], IF intr \in LongIntrinsics THEN "Int64" ELSE "Int32",
             dest, lhs, rhs)
    ELSE Panic(st, "unexpected intrinsic")

FloatArith ==
    [FloatAdd |-> "fadd", FloatSub |-> "fsub", FloatMul |-> "fmul", FloatDiv |-> "fdiv",
     DoubleAdd |-> "fadd", DoubleSub |-> "fsub", DoubleMul |-> "fmul",
     DoubleDiv |-> "fdiv"]

emit_intrinsic_float(st, dest, lhs, rhs, intr, op) ==
    IF intr \in {"FloatEq", "DoubleEq"}
    THEN LET m == IF intr = "DoubleEq" THEN "Float64" ELSE "Float32"
             cond_code == IF op \in CmpOps THEN to_cond_code(op) ELSE "Equal"
         IN set(WithReg(cmp_freg(st, m, lhs, rhs), dest), dest.r, cond_code)
    ELSE IF intr \in {"FloatCmp", "DoubleCmp"}
    THEN LET m == IF intr = "DoubleCmp" THEN "Float64" ELSE "Float32"
         IN IF op \in CmpOps
            THEN set(WithReg(cmp_freg(st, m, lhs, rhs), dest), dest.r, to_cond_code(op))
            ELSE Panic(st, "unimplemented")
    ELSE IF intr \in DOMAIN FloatArith
    THEN alu(WithFReg(st, dest), FloatArith[intr],
             IF intr \in {"FloatAdd", "FloatSub", "FloatMul", "FloatDiv"}
             THEN "Float32" ELSE "Float64",
             dest.r, lhs, rhs)
    ELSE Panic(st, "unexpected intrinsic")

\* an emit_intrinsic_bin that emits the right operand first
emit_intrinsic_bin_rhs_first(lhs, rhs, dest, intr, op, st) ==
    LET m == mode(lhs.ty)
        fl == m \in {"Float32", "Float64"}
        lhs_reg == IF fl THEN FREG_RESULT ELSE REG_RESULT
        rhs_reg == IF fl THEN FREG_TMP1 ELSE REG_TMP1
        offset == TempOffset(rhs.slot)
    IN Then(emit_expr(rhs, IF fl THEN StoreFReg(rhs_reg) ELSE StoreReg(rhs_reg), st),
            LAMBDA s1 :
       Then(reserve_temp_for_node(s1, rhs), LAMBDA s2 :
       Then(emit_expr(lhs, IF fl THEN StoreFReg(lhs_reg) ELSE StoreReg(lhs_reg),
                      IF fl THEN storef_mem(s2, m, LocalMem(offset), rhs_reg)
                      ELSE store_mem(s2, m, LocalMem(offset), rhs_reg)), LAMBDA s4 :
       Then(free_temp_for_node(IF fl THEN loadf_mem(s4, m, rhs_reg, LocalMem(offset))
                               ELSE load_mem(s4, m, rhs_reg, LocalMem(offset)),
                               rhs, offset), LAMBDA s5 :
            IF fl THEN emit_intrinsic_float(s5, dest, lhs_reg, rhs_reg, intr, op)
            ELSE emit_intrinsic_int(WithReg(s5, dest), dest.r, lhs_reg, rhs_reg,
                                    intr, op)))))

emit_intrinsic_bin(lhs, rhs, dest, intr, op, st) ==
    LET m == mode(lhs.ty)
        fl == m \in {"Float32", "Float64"}
        lhs_reg == IF fl THEN FREG_RESULT ELSE REG_RESULT
        rhs_reg == IF fl THEN FREG_TMP1 ELSE REG_TMP1
        offset == TempOffset(lhs.slot)
    IN Then(emit_expr(lhs, IF fl THEN StoreFReg(lhs_reg) ELSE StoreReg(lhs_reg), st),
            LAMBDA s1 :
       Then(reserve_temp_for_node(s1, lhs), LAMBDA s2 :
       Then(emit_expr(rhs, IF fl THEN StoreFReg(rhs_reg) ELSE StoreReg(rhs_reg),
                      IF fl THEN storef_mem(s2, m, LocalMem(offset), lhs_reg)
                      ELSE store_mem(s2, m, LocalMem(offset), lhs_reg)), LAMBDA s4 :
       Then(IF fl THEN loadf_mem(s4, m, lhs_reg, LocalMem(offset))
            ELSE load_mem(s4, m, lhs_reg, LocalMem(offset)), LAMBDA s5 :
            IF fl THEN emit_intrinsic_float(s5, dest, lhs_reg, rhs_reg, intr, op)
            ELSE emit_intrinsic_int(WithReg(s5, dest), dest.r, lhs_reg, rhs_reg,
                                    intr, op)))))

emit_intrinsic_bin_call(e, dest, intr, st) ==
    IF e.object.id = 0 THEN Panic(st, "unwrap on None")
    ELSE IF Len(e.args) = 0 THEN Panic(st, "index out of bounds")
    ELSE emit_intrinsic_bin(e.object, e.args[1], dest, intr, "none", st)

----------------------------------------------------------------------------
(* Expression forms.                                                       *)

emit_un(e, dest, st) ==
    Then(emit_expr(e.opnd, dest, st), LAMBDA s1 :
         LET intr == intrinsic(e)
         IN IF intr = "none" THEN emit_universal_call(e, e.id, dest, s1)
            ELSE IF intr \in {"IntPlus", "LongPlus"} THEN s1
            ELSE IF intr \in {"IntNeg", "LongNeg"}
            THEN alu(WithReg(s1, dest), "neg",
                     IF intr = "IntNeg" THEN "Int32" ELSE "Int64", dest.r, dest.r, dest.r)
            ELSE IF intr = "ByteNot"
            THEN alu(WithReg(s1, dest), "not", "Int8", dest.r, dest.r, dest.r)
            ELSE IF intr \in {"IntNot", "LongNot"}
            THEN alu(WithReg(s1, dest), "not",
                     IF intr = "IntNot" THEN "Int32" ELSE "Int64", dest.r, dest.r, dest.r)
            ELSE IF intr = "BoolNot"
            THEN alu(WithReg(s1, dest), "bool_not", "Int8", dest.r, dest.r, dest.r)
            ELSE Panic(s1, "unexpected intrinsic"))

\* emit_assign, the IdentType::Field arm
emit_assign_field(e, dest, st) ==
    LET f == e.lhs.ident.field
        explicit == e.lhs.k = "Field"
        temp == IF explicit THEN e.lhs.object ELSE e.lhs
        temp_offset == TempOffset(temp.slot)
    IN Then(IF explicit THEN emit_expr(e.lhs.object, StoreReg(REG_RESULT), st)
            ELSE emit_self(st, REG_RESULT), LAMBDA s1 :
       Then(emit_expr(e.rhs, StoreReg(REG_RESULT),
                      store_mem(reserve_temp_for_node(s1, temp), "Ptr",
                                LocalMem(temp_offset), REG_RESULT)), LAMBDA s3 :
       Then(store_mem(load_mem(s3, "Ptr", REG_TMP1, LocalMem(temp_offset)),
                      mode(Fields[f].ty), BaseMem(REG_TMP1, Fields[f].offset),
                      REG_RESULT), LAMBDA s5 :
       Then(WithReg(free_temp_for_node(s5, temp, temp_offset), dest), LAMBDA s6 :
            IF REG_RESULT # dest.r
            THEN copy_reg(s6, mode(Fields[f].ty), dest.r, REG_RESULT)
            ELSE s6))))

emit_assign(e, dest, st) ==
    IF e.lhs.k = "Array"
    THEN LET intr == intrinsic(e)
         IN IF intr = "none" THEN emit_universal_call(e, e.id, dest, st)
            ELSE IF intr \in {"ByteArraySet", "StrSet"}
            THEN emit_array_set(e.id, "Int8", e.lhs.object, e.lhs.index, e.rhs,
                                dest.r, WithReg(st, dest))
            ELSE IF intr = "IntArraySet"
            THEN emit_array_set(e.id, "Int32", e.lhs.object, e.lhs.index, e.rhs,
                                dest.r, WithReg(st, dest))
            ELSE IF intr = "LongArraySet"
            THEN emit_array_set(e.id, "Int64", e.lhs.object, e.lhs.index, e.rhs,
                                dest.r, WithReg(st, dest))
            ELSE Panic(st, "unexpected intrinsic")
    ELSE IF e.lhs.ident.kind = "Var"
    THEN var_store(WithReg(emit_expr(e.rhs, dest, st), dest), dest.r, e.lhs.ident.var)
    ELSE IF e.lhs.ident.kind = "Field"
    THEN emit_assign_field(e, dest, st)
    ELSE Panic(st, "unimplemented")

emit_bin(e, dest, st) ==
    LET intr == intrinsic(e)
    IN IF intr # "none"
       THEN emit_intrinsic_bin(e.lhs, e.rhs, dest, intr, e.op, st)
       ELSE IF e.op \in {"Is", "IsNot"}
       THEN LET offset == TempOffset(e.lhs.slot)
            IN Then(emit_expr(e.lhs, StoreReg(REG_RESULT), st), LAMBDA s1 :
               Then(emit_expr(e.rhs, StoreReg(REG_TMP1),
                              store_mem(reserve_temp_for_node(s1, e.lhs), "Ptr",
                                        LocalMem(offset), REG_RESULT)), LAMBDA s3 :
                    LET s4 == load_mem(s3, "Ptr", REG_RESULT, LocalMem(offset))
                        s5 == cmp_reg(s4, "Ptr", REG_RESULT, REG_TMP1)
                        s6 == set(WithReg(s5, dest), dest.r,
                                  IF e.op = "Is" THEN "Equal" ELSE "NotEqual")
                    IN free_temp_for_node(s6, e.lhs, offset)))
       ELSE IF e.op = "Or" THEN emit_bin_or(e, dest.r, WithReg(st, dest))
       ELSE IF e.op = "And" THEN emit_bin_and(e, dest.r, WithReg(st, dest))
       ELSE Then(emit_universal_call(e, e.id, dest, st), LAMBDA s1 :
               IF e.op = "Eq" THEN s1
               ELSE IF e.op = "Ne"
               THEN alu(WithReg(s1, dest), "bool_not", "Int8", dest.r, dest.r, dest.r)
               ELSE IF e.op \in CmpOps
               THEN LET s2 == WithReg(s1, dest)
                        temp == IF dest.r = REG_RESULT THEN REG_TMP1 ELSE REG_RESULT
                        s3 == load_int_const(s2, "Int32", temp, 0)
                        s4 == cmp_reg(s3, "Int32", dest.r, temp)
                    IN set(s4, dest.r, to_cond_code(e.op))
               ELSE s1)

\* the intrinsics emit_call hands to emit_intrinsic_bin_call
BinCallIntrinsics ==
    {"ByteEq", "ByteCmp", "ByteNot", "BoolEq", "BoolNot", "IntEq", "IntCmp",
     "IntAdd", "IntSub", "IntMul", "IntDiv", "IntMod", "IntOr", "IntAnd", "IntXor",
     "IntShl", "IntSar", "IntShr", "LongEq", "LongCmp",
     "LongAdd", "LongSub", "LongMul", "LongDiv", "LongMod",
     "LongOr", "LongAnd", "LongXor", "LongShl", "LongSar", "LongShr",
     "FloatAdd", "FloatSub", "FloatMul", "FloatDiv",
     "DoubleAdd", "DoubleSub", "DoubleMul", "DoubleDiv"}

emit_call(e, dest, st) ==
    LET intr == intrinsic(e)
        sr == WithReg(st, dest)
    IN IF intr = "none" THEN emit_universal_call(e, e.id, dest, st)
       ELSE IF intr \in {"ByteArrayLen", "IntArrayLen", "LongArrayLen", "StrLen"}
       THEN emit_intrinsic_len(e, dest.r, sr)
       ELSE IF intr = "Assert" THEN emit_intrinsic_assert(e, dest.r, sr)
       ELSE IF intr = "Shl" THEN emit_intrinsic_shl(e, dest.r, sr)
       ELSE IF intr = "SetUint8" THEN emit_set_uint8(e, dest.r, sr)
       ELSE IF intr = "StrGet"
       THEN emit_array_get(e.id, "Int8", e.object, e.args[1], dest.r, sr)
       ELSE IF intr \in {"BoolToInt", "ByteToInt"}
       THEN emit_intrinsic_byte_to_int(e, dest.r, sr)
       ELSE IF intr \in {"BoolToLong", "ByteToLong"}
       THEN emit_intrinsic_byte_to_long(e, dest.r, sr)
       ELSE IF intr = "LongToByte" THEN emit_intrinsic_long_to_byte(e, dest.r, sr)
       ELSE IF intr = "LongToInt" THEN emit_intrinsic_long_to_int(e, dest.r, sr)
       ELSE IF intr = "IntToByte" THEN emit_intrinsic_int_to_byte(e, dest.r, sr)
       ELSE IF intr = "IntToLong" THEN emit_intrinsic_int_to_long(e, dest.r, sr)
       ELSE IF intr \in BinCallIntrinsics THEN emit_intrinsic_bin_call(e, dest, intr, st)
       ELSE Panic(st, "unknown intrinsic")

emit_expr(e, dest, st) ==
    IF ~Ok(st) THEN st
    ELSE CASE e.k = "LitInt" -> emit_lit_int(e, dest.r, WithReg(st, dest))
           [] e.k = "LitFloat" -> emit_lit_float(e, dest.r, WithFReg(st, dest))
           [] e.k = "LitBool" -> emit_lit_bool(e, dest.r, WithReg(st, dest))
           [] e.k = "LitStruct" -> Panic(st, "unimplemented")
           [] e.k = "Un" -> emit_un(e, dest, st)
           [] e.k = "Ident" -> emit_ident(e, dest, st)
           [] e.k = "Assign" -> emit_assign(e, dest, st)
           [] e.k = "Bin" -> emit_bin(e, dest, st)
           [] e.k = "Call" -> emit_call(e, dest, st)
           [] e.k = "Delegation" -> emit_delegation(e, dest, st)
           [] e.k = "Field" -> emit_field(e, dest, st)
           [] e.k = "Self" -> emit_self(WithReg(st, dest), dest.r)
           [] e.k = "Super" -> emit_self(WithReg(st, dest), dest.r)
           [] e.k = "Nil" -> emit_nil(WithReg(st, dest), dest.r)
           [] e.k = "Array" -> emit_array(e, dest, st)
           [] e.k = "Conv" -> emit_conv(e, dest.r, WithReg(st, dest))
           [] e.k = "Try" -> emit_try(e, dest, st)

\* ExprGen::generate
generate(e, dest) ==
    Then(emit_expr(e, dest, NewMasm),
         LAMBDA st : IF Ok(st) /\ st.temps # {}
                     THEN Panic(st, "temporary variables are not fully freed!")
                     ELSE st)

----------------------------------------------------------------------------
(* The machine that runs the emitted code.                                 *)

SELF_ADDR == 100
OBJ_ADDR == 200
ARR_ADDR == 300
NEW_ADDR == 400
LARR_ADDR == 500
BARR_ADDR == 600
ObjAddrs == {SELF_ADDR, OBJ_ADDR, ARR_ADDR, NEW_ADDR, LARR_ADDR, BARR_ADDR}
\* a word of global state that the function fresh() reads and increments
CNT_ADDR == 48
ARRAY_VTABLE == 9000

\* size in bytes of a value of a machine mode
ModeSize(m) == IF m = "Int8" THEN 1 ELSE IF m \in {"Int32", "Float32"} THEN 4 ELSE 8

\* values are kept within the width of the mode they are produced in
Wrap(m, v) == IF m = "Int8" THEN ((v + 128) % 256) - 128 ELSE v

\* the least and the greatest value of a 32-bit register
I32_MIN == (0 - 32768) * 65536
I32_MAX == 32767 * 65536 + 65535

\* x - y in a 32-bit register: the difference modulo 2^32, computed on the
\* two 16-bit halves of the operands
Sub32(x, y) ==
    LET lo == (x % 65536) - (y % 65536)
        borrow == IF lo < 0 THEN 1 ELSE 0
        hi == (x \div 65536) - (y \div 65536) - borrow
    IN (((hi + 32768) % 65536) - 32768) * 65536 + (lo + borrow * 65536)

\* integer division and remainder of idiv: the quotient is truncated
\* towards zero and the remainder has the sign of the dividend
Abs(x) == IF x < 0 THEN 0 - x ELSE x
Quot(x, y) ==
    IF (x < 0) = (y < 0) THEN Abs(x) \div Abs(y) ELSE 0 - (Abs(x) \div Abs(y))
Rem(x, y) == x - y * Quot(x, y)

\* bitwise and, or, xor of two's complement integers, bit by bit
RECURSIVE BitAnd(_, _), BitOr(_, _), BitXor(_, _)
BitAnd(x, y) ==
    IF x = 0 \/ y = 0 THEN 0
    ELSE IF x = 0 - 1 THEN y
    ELSE IF y = 0 - 1 THEN x
    ELSE (x % 2) * (y % 2) + 2 * BitAnd(x \div 2, y \div 2)
BitOr(x, y) ==
    IF x = 0 THEN y
    ELSE IF y = 0 THEN x
    ELSE IF x = 0 - 1 \/ y = 0 - 1 THEN 0 - 1
    ELSE ((x % 2) + (y % 2) - (x % 2) * (y % 2)) + 2 * BitOr(x \div 2, y \div 2)
BitXor(x, y) ==
    IF x = 0 THEN y
    ELSE IF y = 0 THEN x
    ELSE IF x = 0 - 1 THEN 0 - y - 1
    ELSE IF y = 0 - 1 THEN 0 - x - 1
    ELSE ((x + y) % 2) + 2 * BitXor(x \div 2, y \div 2)

\* shifts: the count is taken modulo the width of the register; a logical
\* right shift of a negative 64-bit value is outside the integers of the model
ModeBits(m) == IF m = "Int64" THEN 64 ELSE 32
Shl(m, x, y) == x * 2 ^ (y % ModeBits(m))
Sar(m, x, y) == x \div 2 ^ (y % ModeBits(m))
Shr(m, x, y) ==
    LET n == y % ModeBits(m)
    IN IF x >= 0 \/ n = 0 THEN x \div 2 ^ n
       ELSE IF m = "Int64" THEN JUNK
       ELSE (x \div 2 ^ n) + (I32_MAX \div 2 ^ (n - 1)) + 1

\* floats are modelled by the integers they equal: a quotient that is not
\* one of them is outside the model
FDiv(x, y) == IF y # 0 /\ Rem(x, y) = 0 THEN Quot(x, y) ELSE JUNK

\* the heap before the run: self (class 1), the object o may refer to
\* (class env.ocls) and an IntArray, a LongArray and a ByteArray of length 2
InitHeap(ev) ==
    (SELF_ADDR :> VTableAddr(1)) @@ (SELF_ADDR + 8 :> 5) @@ (SELF_ADDR + 16 :> OBJ_ADDR) @@
    (SELF_ADDR + 24 :> 6) @@
    (OBJ_ADDR :> VTableAddr(ev.ocls)) @@ (OBJ_ADDR + 8 :> 3) @@ (OBJ_ADDR + 16 :> NIL) @@
    (OBJ_ADDR + 24 :> 8) @@
    (ARR_ADDR :> ARRAY_VTABLE) @@ (ARR_ADDR + 8 :> 2) @@
    (ARR_ADDR + 16 :> 11) @@ (ARR_ADDR + 20 :> 12) @@
    (LARR_ADDR :> ARRAY_VTABLE) @@ (LARR_ADDR + 8 :> 2) @@
    (LARR_ADDR + 16 :> 21) @@ (LARR_ADDR + 24 :> 22) @@
    (BARR_ADDR :> ARRAY_VTABLE) @@ (BARR_ADDR + 8 :> 2) @@
    (BARR_ADDR + 16 :> 31) @@ (BARR_ADDR + 17 :> 32) @@ (CNT_ADDR :> 0)

InitFrame(ev) ==
    (Vars.self.offset :> SELF_ADDR) @@ (Vars.a.offset :> ev.a) @@ (Vars.b.offset :> ev.b) @@
    (Vars.i.offset :> ev.i) @@ (Vars.o.offset :> ev.o) @@ (Vars.arr.offset :> ARR_ADDR) @@
    (Vars.larr.offset :> LARR_ADDR) @@ (Vars.barr.offset :> BARR_ADDR) @@
    (Vars.f.offset :> 2)

InitRegs == [r \in AllRegs |-> JUNK]

ReadFrame(fr, off) == IF off \in DOMAIN fr THEN fr[off] ELSE JUNK

CanRead(hp, addr) == IsVTableMem(addr) \/ addr \in DOMAIN hp
ReadHeap(hp, addr) == IF IsVTableMem(addr) THEN VTableMem(addr) ELSE hp[addr]

\* Mem::Local / Mem::Base operand access
MemOk(m) == m.base = "fp" \/ CanRead(heap, regs[m.base] + m.disp)
MemWritable(m) == m.base = "fp" \/ regs[m.base] + m.disp \in DOMAIN heap
MemRead(m) ==
    IF m.base = "fp" THEN ReadFrame(frame, m.disp)
    ELSE ReadHeap(heap, regs[m.base] + m.disp)

\* CondCode against the operands of the last compare
CondHolds(cc, x, y) ==
    CASE cc \in {"Equal", "Zero"} -> x = y
      [] cc \in {"NotEqual", "NonZero"} -> x # y
      [] cc = "Less" -> x < y
      [] cc = "LessEq" -> x <= y
      [] cc = "Greater" -> x > y
      [] cc = "GreaterEq" -> x >= y

Instr == out.code[pc]
Running == phase = "run" /\ pc <= Len(out.code)

Goto(p) == pc' = p

\* a jump to label l: to its bound position, or into the bailout trampoline
\* emit_bailout bound at l
BailoutsAt(l) == {k \in DOMAIN out.bailouts : out.bailouts[k].l = l}
JumpTo(l) ==
    IF BailoutsAt(l) # {}
    THEN LET bo == out.bailouts[CHOOSE k \in BailoutsAt(l) : TRUE]
         IN /\ phase' = "trap"
            /\ trap' = [kind |-> bo.trap, pos |-> bo.pos]
            /\ pc' = pc
    ELSE IF out.labels[l].pos = 0
    THEN /\ phase' = "fault"
         /\ trap' = [kind |-> "UNBOUND_LABEL", pos |-> l]
         /\ pc' = pc
    ELSE /\ pc' = out.labels[l].pos
         /\ UNCHANGED <<phase, trap>>

Fault(kind) ==
    /\ phase' = "fault"
    /\ trap' = [kind |-> kind, pos |-> pc]
    /\ UNCHANGED <<pc, regs, frame, heap, flags, log>>

Fixed == <<prog, env, out, ctxtvars, implvars>>

----------------------------------------------------------------------------
(* Actions.                                                                *)

Generate ==
    /\ phase = "new"
    /\ out' = generate(prog.e, prog.dest)
    /\ phase' = IF out'.panic = "none" THEN "run" ELSE "panic"
    /\ UNCHANGED <<prog, env, pc, regs, frame, heap, flags, trap, log, ctxtvars, implvars>>

\* load_int_const, load_true/false/nil, load_constpool, copy_reg, load_mem, store_mem
ExecMove ==
    /\ Running
    /\ Instr.op \in {"const", "fconst", "copy", "load", "store"}
    /\ UNCHANGED Fixed
    /\ CASE Instr.op \in {"const", "fconst"} ->
              /\ regs' = [regs EXCEPT ![Instr.d] = Instr.v]
              /\ Goto(pc + 1)
              /\ UNCHANGED <<phase, frame, heap, flags, trap, log>>
         [] Instr.op = "copy" ->
              /\ regs' = [regs EXCEPT ![Instr.d] = regs[Instr.s]]
              /\ Goto(pc + 1)
              /\ UNCHANGED <<phase, frame, heap, flags, trap, log>>
         [] Instr.op = "load" ->
              IF MemOk(Instr.m)
              THEN /\ regs' = [regs EXCEPT ![Instr.d] = MemRead(Instr.m)]
                   /\ Goto(pc + 1)
                   /\ UNCHANGED <<phase, frame, heap, flags, trap, log>>
              ELSE Fault("SEGV")
         [] Instr.op = "store" ->
              IF Instr.m.base = "fp"
              THEN /\ frame' = (Instr.m.disp :> Wrap(Instr.mode, regs[Instr.s])) @@ frame
                   /\ Goto(pc + 1)
                   /\ UNCHANGED <<phase, regs, heap, flags, trap, log>>
              ELSE IF MemWritable(Instr.m)
              THEN /\ heap' = [heap EXCEPT ![regs[Instr.m.base] + Instr.m.disp] =
                                               Wrap(Instr.mode, regs[Instr.s])]
                   /\ Goto(pc + 1)
                   /\ UNCHANGED <<phase, regs, frame, flags, trap, log>>
              ELSE Fault("SEGV")

AluResult(f, m, x, y) ==
    CASE f = "add" -> Wrap(m, x + y)
      [] f = "sub" -> IF m = "Int32" THEN Sub32(x, y) ELSE Wrap(m, x - y)
      [] f = "mul" -> Wrap(m, x * y)
      [] f = "div" -> Wrap(m, Quot(x, y))
      [] f = "mod" -> Wrap(m, Rem(x, y))
      [] f = "and" -> BitAnd(x, y)
      [] f = "or" -> BitOr(x, y)
      [] f = "xor" -> BitXor(x, y)
      [] f = "shl" -> Wrap(m, Shl(m, x, y))
      [] f = "sar" -> Sar(m, x, y)
      [] f = "shr" -> Shr(m, x, y)
      [] f = "fdiv" -> FDiv(x, y)
      [] f = "fadd" -> x + y
      [] f = "fsub" -> x - y
      [] f = "fmul" -> x * y
      [] f = "neg" -> Wrap(m, 0 - x)
      [] f = "not" -> Wrap(m, 0 - x - 1)
      [] f = "bool_not" -> IF x = 0 THEN 1 ELSE 0
      [] f = "extend_byte" -> Wrap("Int8", x)
      [] OTHER -> x

\* int_add, int_sub, ..., int_neg, int_not, bool_not, extend_byte, extend_int_long
ExecAlu ==
    /\ Running
    /\ Instr.op = "alu"
    /\ UNCHANGED Fixed
    /\ IF Instr.f \in {"div", "mod"} /\ regs[Instr.b] = 0
       THEN /\ phase' = "trap"
            /\ trap' = [kind |-> "DIV0", pos |-> pc]
            /\ UNCHANGED <<pc, regs, frame, heap, flags, log>>
       ELSE /\ regs' = [regs EXCEPT ![Instr.d] =
                            AluResult(Instr.f, Instr.mode, regs[Instr.a], regs[Instr.b])]
            /\ Goto(pc + 1)
            /\ UNCHANGED <<phase, frame, heap, flags, trap, log>>

\* cmp_reg, cmp_mem, cmp_mem_imm, set
ExecCompare ==
    /\ Running
    /\ Instr.op \in {"cmp_reg", "cmp_mem", "cmp_mem_imm", "set"}
    /\ UNCHANGED Fixed
    /\ CASE Instr.op = "cmp_reg" ->
              /\ flags' = <<regs[Instr.a], regs[Instr.b]>>
              /\ Goto(pc + 1)
              /\ UNCHANGED <<phase, regs, frame, heap, trap, log>>
         [] Instr.op = "cmp_mem" ->
              IF MemOk(Instr.m)
              THEN /\ flags' = <<MemRead(Instr.m), regs[Instr.b]>>
                   /\ Goto(pc + 1)
                   /\ UNCHANGED <<phase, regs, frame, heap, trap, log>>
              ELSE Fault("SEGV")
         [] Instr.op = "cmp_mem_imm" ->
              IF MemOk(Instr.m)
              THEN /\ flags' = <<MemRead(Instr.m), Instr.v>>
                   /\ Goto(pc + 1)
                   /\ UNCHANGED <<phase, regs, frame, heap, trap, log>>
              ELSE Fault("SEGV")
         [] Instr.op = "set" ->
              /\ regs' = [regs EXCEPT ![Instr.d] =
                              IF CondHolds(Instr.cc, flags[1], flags[2]) THEN 1 ELSE 0]
              /\ Goto(pc + 1)
              /\ UNCHANGED <<phase, frame, heap, flags, trap, log>>

\* jump, jump_if, test_and_jump_if
ExecJump ==
    /\ Running
    /\ Instr.op \in {"jump", "jump_if", "test_jump"}
    /\ UNCHANGED Fixed
    /\ UNCHANGED <<regs, frame, heap, log>>
    /\ LET taken == CASE Instr.op = "jump" -> TRUE
                      [] Instr.op = "jump_if" -> CondHolds(Instr.cc, flags[1], flags[2])
                      [] Instr.op = "test_jump" -> CondHolds(Instr.cc, regs[Instr.r], 0)
       IN IF taken
          THEN /\ JumpTo(Instr.l)
               /\ flags' = IF Instr.op = "test_jump" THEN <<regs[Instr.r], 0>> ELSE flags
          ELSE /\ Goto(pc + 1)
               /\ flags' = IF Instr.op = "test_jump" THEN <<regs[Instr.r], 0>> ELSE flags
               /\ UNCHANGED <<phase, trap>>

\* emit_bailout_inplace
ExecBailout ==
    /\ Running
    /\ Instr.op = "bailout"
    /\ phase' = "trap"
    /\ trap' = [kind |-> Instr.trap, pos |-> Instr.pos]
    /\ UNCHANGED Fixed
    /\ UNCHANGED <<pc, regs, frame, heap, flags, log>>

\* check_index_out_of_bounds, load_array_elem, store_array_elem
ExecArray ==
    /\ Running
    /\ Instr.op \in {"check_bounds", "load_elem", "store_elem"}
    /\ UNCHANGED Fixed
    /\ LET base == regs[Instr.arr]
           idx == regs[Instr.idx]
       IN IF ~CanRead(heap, base + HEADER_SIZE) THEN Fault("SEGV")
          ELSE IF Instr.op = "check_bounds"
          THEN IF idx < 0 \/ idx >= ReadHeap(heap, base + HEADER_SIZE)
               THEN /\ phase' = "trap"
                    /\ trap' = [kind |-> "INDEX_OUT_OF_BOUNDS", pos |-> Instr.pos]
                    /\ UNCHANGED <<pc, regs, frame, heap, flags, log>>
               ELSE /\ regs' = [regs EXCEPT ![Instr.tmp] = ReadHeap(heap, base + HEADER_SIZE)]
                    /\ Goto(pc + 1)
                    /\ UNCHANGED <<phase, frame, heap, flags, trap, log>>
          ELSE LET addr == base + HEADER_SIZE + PTR_WIDTH + idx * ModeSize(Instr.mode)
               IN IF addr \notin DOMAIN heap THEN Fault("SEGV")
                  ELSE IF Instr.op = "load_elem"
                  THEN /\ regs' = [regs EXCEPT ![Instr.d] = heap[addr]]
                       /\ Goto(pc + 1)
                       /\ UNCHANGED <<phase, frame, heap, flags, trap, log>>
                  ELSE /\ heap' = [heap EXCEPT ![addr] = Wrap(Instr.mode, regs[Instr.s])]
                       /\ Goto(pc + 1)
                       /\ UNCHANGED <<phase, regs, frame, flags, trap, log>>

\* the function a call instruction transfers to
Target(ins) ==
    IF ins.kind = "indirect" THEN "virt"
    ELSE IF ins.ptr.k = "native" THEN ins.ptr.f
    ELSE ins.fid

SelIndex(t) == {n \in DOMAIN SelName : SelName[n] = t}

Argc(t) ==
    IF SelIndex(t) # {} THEN CHOOSE n \in SelIndex(t) : TRUE
    ELSE IF t \in {"may_throw", "nat_ptr", "virt", "gc_alloc"} THEN 1
    ELSE IF t = "ctor" THEN 2
    ELSE 0

\* argument i as the callee finds it: in REG_PARAMS[i], or on the stack
AbiArg(i) ==
    IF i <= Len(REG_PARAMS) THEN regs[REG_PARAMS[i]]
    ELSE ReadFrame(frame, 0 - STACKSIZE + 8 * (i - Len(REG_PARAMS) - 1))

AbiArgs(t) == [i \in 1..Argc(t) |-> AbiArg(i)]

\* what the callees do: sel<n> returns its last argument, fresh() returns a
\* different object on its second call, may_throw(x) throws when x = 0
RetVal(t, args, hp) ==
    IF SelIndex(t) # {} THEN args[Len(args)]
    ELSE CASE t = "k" -> 7
           [] t = "mk" -> OBJ_ADDR
           [] t = "fresh" -> IF hp[CNT_ADDR] = 0 THEN OBJ_ADDR ELSE SELF_ADDR
           [] t = "may_throw" -> args[1]
           [] t = "nat_ptr" -> args[1]
           [] t = "virt" -> 9
           [] t = "gc_alloc" -> IF env.oom THEN NIL ELSE NEW_ADDR
           [] OTHER -> JUNK

CalleeHeap(t, args, hp) ==
    IF t = "gc_alloc" /\ ~env.oom
    THEN (NEW_ADDR :> 0) @@ (NEW_ADDR + 8 :> 0) @@ (NEW_ADDR + 16 :> 0) @@
         (NEW_ADDR + 24 :> 0) @@ hp
    ELSE IF t = "ctor" /\ args[1] + 8 \in DOMAIN hp
    THEN [hp EXCEPT ![args[1] + 8] = args[2]]
    ELSE IF t = "fresh" THEN [hp EXCEPT ![CNT_ADDR] = @ + 1]
    ELSE hp

Throws(t, args) == t = "may_throw" /\ args[1] = 0

\* the collector at a safepoint: a frame slot that refers to an object and is
\* not in the root set of the GC point of the return address is not updated
RootsAt(ra) ==
    UNION {out.gcpoints[k].refs : k \in {j \in DOMAIN out.gcpoints : out.gcpoints[j].pos = ra}}
Collect(fr, roots) ==
    [off \in DOMAIN fr |-> IF fr[off] \in ObjAddrs /\ off \notin roots THEN STALE
                           ELSE fr[off]]

HandlersFor(ra) ==
    {k \in DOMAIN out.handlers :
        out.handlers[k].try_start < ra /\ ra <= out.handlers[k].try_end}

\* direct_call, indirect_call
ExecCall ==
    /\ Running
    /\ Instr.op = "call"
    /\ UNCHANGED Fixed
    /\ IF Instr.kind = "indirect" /\ ~CanRead(heap, regs[REG_PARAMS[1]])
       THEN Fault("SEGV")
       ELSE LET t == Target(Instr)
                args == AbiArgs(t)
                ra == pc + 1
                fr == IF env.gc THEN Collect(frame, RootsAt(ra)) ELSE frame
                hs == HandlersFor(ra)
            IN /\ log' = Append(log, [f |-> t, args |-> args, at |-> pc])
               /\ frame' = fr
               /\ flags' = <<JUNK, JUNK>>
               /\ heap' = CalleeHeap(t, args, heap)
               /\ IF Throws(t, args)
                  THEN /\ regs' = InitRegs
                       /\ trap' = trap
                       /\ IF hs = {}
                          THEN phase' = "unwound" /\ pc' = pc
                          ELSE /\ phase' = phase
                               /\ pc' = out.handlers[CHOOSE k \in hs :
                                                        \A j \in hs : k <= j].catch_pc
                  ELSE /\ regs' = [InitRegs EXCEPT ![REG_RESULT] = RetVal(t, args, heap)]
                       /\ Goto(ra)
                       /\ UNCHANGED <<phase, trap>>

\* the end of the emitted code is reached
Finish ==
    /\ phase = "run"
    /\ pc = Len(out.code) + 1
    /\ phase' = "done"
    /\ UNCHANGED <<prog, env, out, pc, regs, frame, heap, flags, trap, log, ctxtvars,
                   implvars>>

Next ==
    \/ Generate
    \/ ExecMove
    \/ ExecAlu
    \/ ExecCompare
    \/ ExecJump
    \/ ExecBailout
    \/ ExecArray
    \/ ExecCall
    \/ Finish

----------------------------------------------------------------------------
(* The meaning of an expression: what evaluating it once, left to right,   *)
(* yields.  A result s carries the value v, the locals fr, the heap hp,    *)
(* the calls made and r: "ok", "throw", or the trap that ended evaluation. *)

\* the result v of one evaluation step is handed to the steps F that follow
With(v, F(_)) == F(v)

RECURSIVE Eval(_, _)
RECURSIVE EvalArgs(_, _, _, _)

Sem0(ev) ==
    [v |-> 0, fr |-> InitFrame(ev), hp |-> InitHeap(ev), r |-> "ok", calls |-> <<>>]
SetV(s, v) == [s EXCEPT !.v = v]
Stop(s, r) == [s EXCEPT !.r = r]

\* the class of the object at addr, from its header word
ClassOfObj(hp, addr) == CHOOSE c \in Classes : VTableAddr(c) = hp[addr]

\* the callee a function id resolves to at run time
CalleeOf(fid) ==
    IF Fct(fid).is_virtual THEN "virt"
    ELSE IF Fct(fid).kind = "Native" THEN NativePtr(fid)
    ELSE fid

EvalCall(s, t, args) ==
    IF Throws(t, args)
    THEN [s EXCEPT !.r = "throw", !.calls = Append(@, [f |-> t, args |-> args])]
    ELSE [s EXCEPT !.v = RetVal(t, args, s.hp), !.hp = CalleeHeap(t, args, s.hp),
                   !.calls = Append(@, [f |-> t, args |-> args])]

EvalArg(arg, s) ==
    CASE arg.kind = "Expr" -> Eval(arg.ast, s)
      [] arg.kind = "Selfie" -> SetV(s, s.fr[Vars.self.offset])
      [] arg.kind = "SelfieNew" ->
         With(EvalCall(s, "gc_alloc", <<ClassSize(arg.cls_id)>>), LAMBDA t :
              IF t.v = NIL THEN Stop(t, "OOM")
              ELSE [t EXCEPT !.hp[NEW_ADDR] = VTableAddr(arg.cls_id)])

\* the argument values, in call-site order
EvalArgs(args, k, acc, s) ==
    IF s.r # "ok" \/ k > Len(args) THEN SetV(s, acc)
    ELSE With(EvalArg(args[k], s), LAMBDA t : EvalArgs(args, k + 1, Append(acc, t.v), t))

\* a call through the call site of e; a constructor call yields the new object
EvalSite(e, s) ==
    With(EvalArgs(e.csite.args, 1, <<>>, s), LAMBDA t :
         IF t.r # "ok" THEN t
         ELSE IF /\ e.call.some /\ e.call.is_method
                 /\ check_for_nil(e.csite.args[1].ty) /\ t.v[1] = NIL
         THEN Stop(t, "NIL")
         ELSE With(EvalCall(t, IF e.csite.callee.kind = "Ptr" THEN e.csite.callee.ptr
                                  ELSE CalleeOf(e.csite.callee.fid), t.v), LAMBDA u :
                   IF u.r = "ok" /\ Len(e.csite.args) > 0
                             /\ e.csite.args[1].kind = "SelfieNew"
                   THEN SetV(u, t.v[1]) ELSE u))

ElemAddr(base, m, idx) == base + HEADER_SIZE + PTR_WIDTH + idx * ModeSize(m)
ElemMode(intr) ==
    IF intr \in {"IntArrayGet", "IntArraySet"} THEN "Int32"
    ELSE IF intr \in {"LongArrayGet", "LongArraySet"} THEN "Int64" ELSE "Int8"

EvalIndex(s, base, idx) ==
    IF base = NIL THEN Stop(s, "NIL")
    ELSE IF idx < 0 \/ idx >= s.hp[base + HEADER_SIZE] THEN Stop(s, "INDEX_OUT_OF_BOUNDS")
    ELSE s

EqIntrinsics == {"ByteEq", "BoolEq", "IntEq", "LongEq", "FloatEq", "DoubleEq"}
CmpIntrinsics == {"ByteCmp", "IntCmp", "LongCmp", "FloatCmp", "DoubleCmp"}

\* x op y for a comparison operator of the language
Related(op, x, y) ==
    CASE op \in {"Eq", "Is"} -> x = y
      [] op \in {"Ne", "IsNot"} -> x # y
      [] op = "Lt" -> x < y
      [] op = "Le" -> x <= y
      [] op = "Gt" -> x > y
      [] op = "Ge" -> x >= y

\* x.compareTo(y): the difference x - y where an Int holds it, else its sign
CompareTo(x, y) ==
    IF x < 0 /\ y >= 0 /\ x < I32_MIN + y THEN 0 - 1
    ELSE IF x >= 0 /\ y < 0 /\ x > I32_MAX + y THEN 1
    ELSE x - y

\* op is the operator of a binary expression, "none" in a method call
EvalIntrinsicBin(intr, op, x, y) ==
    LET m == IF intr \in LongIntrinsics THEN "Int64" ELSE "Int32"
    IN CASE intr \in {"IntAdd", "LongAdd", "FloatAdd", "DoubleAdd"} -> x + y
         [] intr \in {"IntSub", "LongSub", "FloatSub", "DoubleSub"} -> x - y
         [] intr \in {"IntMul", "LongMul", "FloatMul", "DoubleMul"} -> x * y
         [] intr \in {"IntDiv", "LongDiv"} -> Quot(x, y)
         [] intr \in {"IntMod", "LongMod"} -> Rem(x, y)
         [] intr \in {"IntAnd", "LongAnd"} -> BitAnd(x, y)
         [] intr \in {"IntOr", "LongOr"} -> BitOr(x, y)
         [] intr \in {"IntXor", "LongXor"} -> BitXor(x, y)
         [] intr \in {"IntShl", "LongShl", "Shl"} -> Shl(m, x, y)
         [] intr \in {"IntSar", "LongSar"} -> Sar(m, x, y)
         [] intr \in {"IntShr", "LongShr"} -> Shr(m, x, y)
         [] intr \in {"FloatDiv", "DoubleDiv"} -> FDiv(x, y)
         [] intr \in EqIntrinsics \cup CmpIntrinsics /\ op \in CmpOps ->
            IF Related(op, x, y) THEN 1 ELSE 0
         [] intr \in EqIntrinsics /\ op \notin CmpOps -> IF x = y THEN 1 ELSE 0
         [] intr \in CmpIntrinsics /\ op \notin CmpOps -> CompareTo(x, y)
         [] OTHER -> JUNK

\* an integer division or remainder by zero raises DIV0
DivByZero(intr, y) == intr \in {"IntDiv", "LongDiv", "IntMod", "LongMod"} /\ y = 0

\* the value of a one-operand intrinsic; a Byte holds 0..255
EvalIntrinsicUn(intr, x) ==
    CASE intr \in {"IntNeg", "LongNeg"} -> 0 - x
      [] intr \in {"IntPlus", "LongPlus"} -> x
      [] intr \in {"IntNot", "LongNot", "ByteNot"} -> 0 - x - 1
      [] intr = "BoolNot" -> IF x = 0 THEN 1 ELSE 0
      [] intr \in {"IntToByte", "LongToByte"} -> x % 256
      [] intr \in {"BoolToInt", "BoolToLong", "ByteToInt", "ByteToLong",
                   "IntToLong", "LongToInt"} -> x
      [] OTHER -> JUNK

EvalBin(e, s) ==
    IF intrinsic(e) # "none"
    THEN With(Eval(e.lhs, s), LAMBDA l :
         With(Eval(e.rhs, l), LAMBDA r :
              IF r.r # "ok" THEN r
              ELSE IF DivByZero(intrinsic(e), r.v) THEN Stop(r, "DIV0")
              ELSE SetV(r, EvalIntrinsicBin(intrinsic(e), e.op, l.v, r.v))))
    ELSE IF e.op \in {"Is", "IsNot"}
    THEN With(Eval(e.lhs, s), LAMBDA l :
         With(Eval(e.rhs, l), LAMBDA r :
              SetV(r, IF (l.v = r.v) = (e.op = "Is") THEN 1 ELSE 0)))
    ELSE IF e.op \in {"Or", "And"}
    THEN With(Eval(e.lhs, s), LAMBDA l :
              IF l.r # "ok" THEN l
              ELSE IF (l.v # 0) = (e.op = "Or") THEN SetV(l, IF e.op = "Or" THEN 1 ELSE 0)
              ELSE With(Eval(e.rhs, l), LAMBDA r : SetV(r, IF r.v # 0 THEN 1 ELSE 0)))
    ELSE With(EvalSite(e, s), LAMBDA u :
              IF u.r # "ok" \/ e.op = "Eq" \/ e.op \notin CmpOps THEN u
              ELSE IF e.op = "Ne" THEN SetV(u, IF u.v = 0 THEN 1 ELSE 0)
              ELSE SetV(u, IF CondHolds(to_cond_code(e.op), u.v, 0) THEN 1 ELSE 0))

EvalUn(e, s) ==
    IF intrinsic(e) = "none" THEN EvalSite(e, s)
    ELSE With(Eval(e.opnd, s), LAMBDA x :
              IF x.r # "ok" THEN x
              ELSE SetV(x, EvalIntrinsicUn(intrinsic(e), x.v)))

EvalAssign(e, s) ==
    IF e.lhs.k = "Array"
    THEN IF intrinsic(e) = "none" THEN EvalSite(e, s)
         ELSE With(Eval(e.lhs.object, s), LAMBDA o :
              With(Eval(e.lhs.index, o), LAMBDA i :
              With(Eval(e.rhs, i), LAMBDA r :
                   IF r.r # "ok" THEN r
                   ELSE With(EvalIndex(r, o.v, i.v), LAMBDA c :
                        IF c.r # "ok" THEN c
                        ELSE [c EXCEPT !.hp[ElemAddr(o.v, ElemMode(intrinsic(e)), i.v)] =
                                           r.v]))))
    ELSE IF e.lhs.ident.kind = "Var"
    THEN With(Eval(e.rhs, s), LAMBDA r :
              IF r.r # "ok" THEN r
              ELSE [r EXCEPT !.fr[Vars[e.lhs.ident.var].offset] = r.v])
    ELSE With(IF e.lhs.k = "Field" THEN Eval(e.lhs.object, s)
              ELSE SetV(s, s.fr[Vars.self.offset]), LAMBDA o :
         With(Eval(e.rhs, o), LAMBDA r :
              IF r.r # "ok" THEN r
              ELSE IF o.v = NIL THEN Stop(r, "NIL")
              ELSE [r EXCEPT !.hp[o.v + Fields[e.lhs.ident.field].offset] = r.v]))

EvalConv(e, s) ==
    With(Eval(e.object, s), LAMBDA o :
         IF o.r # "ok" THEN o
         ELSE IF e.is
         THEN SetV(o, IF o.v # NIL /\ IsSubclass(ClassOfObj(o.hp, o.v), e.conv.cls_id)
                      THEN 1 ELSE 0)
         ELSE IF o.v = NIL \/ IsSubclass(ClassOfObj(o.hp, o.v), e.conv.cls_id) THEN o
         ELSE Stop(o, "CAST"))

EvalTry(e, s) ==
    With(Eval(e.expr, s), LAMBDA x :
         IF x.r # "throw" \/ e.mode = "Normal" THEN x
         ELSE IF e.mode = "Else" THEN Eval(e.alt, [x EXCEPT !.r = "ok"])
         ELSE Stop(x, "UNEXPECTED"))

\* a call that semantic analysis resolved to an intrinsic
EvalIntrinsicCall(e, s) ==
    LET intr == intrinsic(e)
    IN IF intr = "Assert"
       THEN With(Eval(e.args[1], s), LAMBDA x :
                 IF x.r = "ok" /\ x.v = 0 THEN Stop(x, "ASSERT") ELSE x)
       ELSE IF intr \in {"ByteArrayLen", "IntArrayLen", "LongArrayLen", "StrLen"}
       THEN With(Eval(e.object, s), LAMBDA o :
                 IF o.r # "ok" THEN o
                 ELSE IF o.v = NIL THEN Stop(o, "NIL")
                 ELSE SetV(o, o.hp[o.v + HEADER_SIZE]))
       ELSE IF intr = "Shl"
       THEN With(Eval(e.args[1], s), LAMBDA l :
            With(Eval(e.args[2], l), LAMBDA r :
                 IF r.r # "ok" THEN r
                 ELSE SetV(r, EvalIntrinsicBin(intr, "none", l.v, r.v))))
       ELSE IF intr = "SetUint8"
       THEN With(Eval(e.args[1], s), LAMBDA a :
            With(Eval(e.args[2], a), LAMBDA b :
                 IF b.r # "ok" THEN b
                 ELSE IF a.v \notin DOMAIN b.hp THEN Stop(b, "SEGV")
                 ELSE [b EXCEPT !.hp[a.v] = b.v % 256]))
       ELSE IF intr \in {"StrGet", "ByteArrayGet", "IntArrayGet", "LongArrayGet"}
       THEN With(Eval(e.object, s), LAMBDA o :
            With(Eval(e.args[1], o), LAMBDA i :
                 IF i.r # "ok" THEN i
                 ELSE With(EvalIndex(i, o.v, i.v), LAMBDA c :
                      IF c.r # "ok" THEN c
                      ELSE SetV(c, c.hp[ElemAddr(o.v, ElemMode(intr), i.v)]))))
       ELSE IF Len(e.args) = 0
       THEN With(Eval(e.object, s), LAMBDA x :
                 IF x.r # "ok" THEN x ELSE SetV(x, EvalIntrinsicUn(intr, x.v)))
       ELSE With(Eval(e.object, s), LAMBDA l :
            With(Eval(e.args[1], l), LAMBDA r :
                 IF r.r # "ok" THEN r
                 ELSE IF DivByZero(intr, r.v) THEN Stop(r, "DIV0")
                 ELSE SetV(r, EvalIntrinsicBin(intr, "none", l.v, r.v))))

Eval(e, s) ==
    IF s.r # "ok" THEN s
    ELSE CASE e.k \in {"LitInt", "LitFloat"} -> SetV(s, e.value)
           [] e.k = "LitBool" -> SetV(s, IF e.value THEN 1 ELSE 0)
           [] e.k = "Nil" -> SetV(s, NIL)
           [] e.k \in {"Self", "Super"} -> SetV(s, s.fr[Vars.self.offset])
           [] e.k = "Ident" ->
              IF e.ident.kind = "Var" THEN SetV(s, s.fr[Vars[e.ident.var].offset])
              ELSE SetV(s, s.hp[s.fr[Vars.self.offset] + Fields[e.ident.field].offset])
           [] e.k = "Field" ->
              With(Eval(e.object, s), LAMBDA o :
                   IF o.r # "ok" THEN o
                   ELSE IF o.v = NIL THEN Stop(o, "NIL")
                   ELSE SetV(o, o.hp[o.v + Fields[e.ident.field].offset]))
           [] e.k = "Un" -> EvalUn(e, s)
           [] e.k = "Bin" -> EvalBin(e, s)
           [] e.k = "Assign" -> EvalAssign(e, s)
           [] e.k = "Call" ->
              IF intrinsic(e) = "none" THEN EvalSite(e, s) ELSE EvalIntrinsicCall(e, s)
           [] e.k = "Delegation" -> EvalSite(e, s)
           [] e.k = "Array" ->
              IF intrinsic(e) = "none" THEN EvalSite(e, s)
              ELSE With(Eval(e.object, s), LAMBDA o :
                   With(Eval(e.index, o), LAMBDA i :
                        IF i.r # "ok" THEN i
                        ELSE With(EvalIndex(i, o.v, i.v), LAMBDA c :
                             IF c.r # "ok" THEN c
                             ELSE SetV(c, c.hp[ElemAddr(o.v, ElemMode(intrinsic(e)),
                                                        i.v)]))))
           [] e.k = "Conv" -> EvalConv(e, s)
           [] e.k = "Try" -> EvalTry(e, s)

\* the result of evaluating the compiled expression in the initial state
Meaning == Eval(prog.e, Sem0(env))

----------------------------------------------------------------------------
(* Concurrent compilations.  Compiler threads compile source functions at  *)
(* the same time against the registries of one Context.  A compilation of  *)
(* f holds the mutex of f's FctSrc from start to end and resolves the      *)
(* callees of f, in call-site order, through ptr_for_fct_id.               *)

NThreads == 2
Threads == 1..NThreads
\* the compilations one thread starts
MaxCompiles == 2

\* the source functions compiled and, per function, the callees its call
\* sites resolve with ptr_for_fct_id
Compilable == {SelfFct, "k", "mk"}
CalleesOf(f) ==
    CASE f = SelfFct -> <<"k", "nat", SelfFct>>
      [] f = "k" -> <<SelfFct, "nat_alias">>
      [] f = "mk" -> <<"nat", "k", "nat2">>

\* the mutexes: ctxt.code_map, ctxt.native_fcts, and fct.src() per function
CODE_MAP == "code_map"
NATIVE_FCTS == "native_fcts"
SrcLock(f) == f
LockNames == {CODE_MAP, NATIVE_FCTS} \cup {SrcLock(f) : f \in Compilable}
NoThread == 0

\* code pointers: none, the entry of a JitFct, a lazy-compile stub, a native stub
NoCode == [k |-> "none", f |-> "none", n |-> 0]
fct_ptr(f) == [k |-> "jit", f |-> f, n |-> 0]
Stub(n) == [k |-> "stub", f |-> "none", n |-> n]
NativeStub(ptr, n) == [k |-> "native", f |-> ptr, n |-> n]

IdleThread == [st |-> "idle", f |-> "none", k |-> 1, found |-> NoCode, n |-> 0]

InitCtxt ==
    /\ locks = [l \in LockNames |-> NoThread]
    /\ thr = [t \in Threads |-> IdleThread]
    /\ jit_fct = [f \in Compilable |-> NoCode]
    /\ compile_stub = NoCode
    /\ code_map = {}
    /\ native_fcts = <<>>
    /\ generated = [p \in {NativePtr(f) : f \in {"nat", "nat_alias", "nat2"}} |-> 0]
    /\ resolved = {}
    /\ handed = {}

\* Mutex::lock succeeds when no thread holds the mutex; it blocks otherwise
LockFree(l) == locks[l] = NoThread

\* the callee the compilation of thread t resolves next
Emitting(t) == thr[t].st = "emit" /\ thr[t].k <= Len(CalleesOf(thr[t].f))
Callee(t) == CalleesOf(thr[t].f)[thr[t].k]

\* an ensure_jit_or_stub_ptr that always hands out the stub
jit_or_stub_ptr_stub_always(jit, stub) == stub

\* ensure_jit_or_stub_ptr: the entry of src.jit_fct if present, else the stub
jit_or_stub_ptr(jit, stub) == IF jit # NoCode THEN jit ELSE stub

\* ensure_stub: the lazy-compile stub of the context; the first call creates
\* it and registers it in the code map
StubMissing(g) == jit_fct[g] = NoCode /\ compile_stub = NoCode
ensure_stub == IF compile_stub # NoCode THEN compile_stub
               ELSE Stub(Cardinality(code_map) + 1)

\* NativeFcts::find_fct / insert_fct
find_fct(nf, ptr) == IF ptr \in DOMAIN nf THEN nf[ptr] ELSE NoCode
insert_fct(nf, ptr, stub) == (ptr :> stub) @@ nf

\* a thread starts compiling f
StartCompile(t) ==
    /\ UNCHANGED <<exprvars, implvars>>
    /\ thr[t].st = "idle"
    /\ thr[t].n < MaxCompiles
    /\ \E f \in Compilable :
          thr' = [thr EXCEPT ![t] = [@ EXCEPT !.st = "want_src", !.f = f, !.k = 1,
                                              !.n = @ + 1]]
    /\ UNCHANGED <<locks, jit_fct, compile_stub, code_map, native_fcts, generated,
                   resolved, handed>>

\* the compilation locks the FctSrc of f; a function that has its code
\* already is not compiled again
LockSrc(t) ==
    /\ UNCHANGED <<exprvars, implvars>>
    /\ thr[t].st = "want_src"
    /\ LockFree(SrcLock(thr[t].f))
    /\ IF jit_fct[thr[t].f] # NoCode
       THEN /\ thr' = [thr EXCEPT ![t].st = "idle"]
            /\ UNCHANGED locks
       ELSE /\ thr' = [thr EXCEPT ![t].st = "emit"]
            /\ locks' = [locks EXCEPT ![SrcLock(thr[t].f)] = t]
    /\ UNCHANGED <<jit_fct, compile_stub, code_map, native_fcts, generated,
                   resolved, handed>>

\* ensure_jit_or_stub_ptr(src of g), called by thread t
EnsureJitOrStub(t, g) ==
    /\ StubMissing(g) => LockFree(CODE_MAP)
    /\ compile_stub' = IF StubMissing(g) THEN ensure_stub ELSE compile_stub
    /\ code_map' = IF StubMissing(g) THEN code_map \cup {ensure_stub} ELSE code_map
    /\ resolved' = resolved \cup
           {[fid |-> g, jit |-> jit_fct[g], ptr |-> jit_or_stub_ptr(jit_fct[g], ensure_stub)]}
    /\ UNCHANGED jit_fct

\* ptr_for_fct_id, self.fct.id == fid: the FctSrc of the compilation itself
PtrForSelf(t) ==
    /\ UNCHANGED <<exprvars, implvars>>
    /\ Emitting(t)
    /\ Callee(t) = thr[t].f
    /\ EnsureJitOrStub(t, Callee(t))
    /\ thr' = [thr EXCEPT ![t].k = @ + 1]
    /\ UNCHANGED <<locks, native_fcts, generated, handed>>

\* ptr_for_fct_id, FctKind::Source: src.lock()
LockCalleeSrc(t) ==
    /\ UNCHANGED <<exprvars, implvars>>
    /\ Emitting(t)
    /\ Callee(t) # thr[t].f
    /\ Fct(Callee(t)).kind = "Source"
    /\ LockFree(SrcLock(Callee(t)))
    /\ locks' = [locks EXCEPT ![SrcLock(Callee(t))] = t]
    /\ thr' = [thr EXCEPT ![t].st = "callee"]
    /\ UNCHANGED <<jit_fct, compile_stub, code_map, native_fcts, generated,
                   resolved, handed>>

\* ptr_for_fct_id, FctKind::Source: ensure_jit_or_stub_ptr under the lock of
\* the callee, which is released when the pointer is returned
PtrForSource(t) ==
    /\ UNCHANGED <<exprvars, implvars>>
    /\ thr[t].st = "callee"
    /\ EnsureJitOrStub(t, Callee(t))
    /\ locks' = [locks EXCEPT ![SrcLock(Callee(t))] = NoThread]
    /\ thr' = [thr EXCEPT ![t] = [@ EXCEPT !.st = "emit", !.k = @ + 1]]
    /\ UNCHANGED <<native_fcts, generated, handed>>

\* a lock of native_fcts that does not wait for the holder
LockNativeFctsUnguarded(t) ==
    /\ UNCHANGED <<exprvars, implvars>>
    /\ Emitting(t)
    /\ Fct(Callee(t)).kind = "Native"
    /\ locks' = [locks EXCEPT ![NATIVE_FCTS] = t]
    /\ thr' = [thr EXCEPT ![t].st = "native_find"]
    /\ UNCHANGED <<jit_fct, compile_stub, code_map, native_fcts, generated,
                   resolved, handed>>

\* ensure_native_stub: ctxt.native_fcts.lock()
LockNativeFcts(t) ==
    /\ UNCHANGED <<exprvars, implvars>>
    /\ Emitting(t)
    /\ Fct(Callee(t)).kind = "Native"
    /\ LockFree(NATIVE_FCTS)
    /\ locks' = [locks EXCEPT ![NATIVE_FCTS] = t]
    /\ thr' = [thr EXCEPT ![t].st = "native_find"]
    /\ UNCHANGED <<jit_fct, compile_stub, code_map, native_fcts, generated,
                   resolved, handed>>

\* ensure_native_stub: native_fcts.find_fct(ptr)
NativeFind(t) ==
    /\ UNCHANGED <<exprvars, implvars>>
    /\ thr[t].st = "native_find"
    /\ LET hit == find_fct(native_fcts, NativePtr(Callee(t)))
       IN thr' = [thr EXCEPT ![t] = [@ EXCEPT !.found = hit,
                                              !.st = IF hit # NoCode THEN "native_ret"
                                                     ELSE "native_gen"]]
    /\ UNCHANGED <<locks, jit_fct, compile_stub, code_map, native_fcts, generated,
                   resolved, handed>>

\* ensure_native_stub: native::generate(ctxt, fct_id, ptr, ty, args)
NativeGenerate(t) ==
    /\ UNCHANGED <<exprvars, implvars>>
    /\ thr[t].st = "native_gen"
    /\ LET ptr == NativePtr(Callee(t))
       IN /\ generated' = [generated EXCEPT ![ptr] = @ + 1]
          /\ thr' = [thr EXCEPT ![t] = [@ EXCEPT !.found = NativeStub(ptr, generated[ptr] + 1),
                                                 !.st = "native_insert"]]
    /\ UNCHANGED <<locks, jit_fct, compile_stub, code_map, native_fcts, resolved, handed>>

\* ensure_native_stub: native_fcts.insert_fct(ptr, jit_fct)
NativeInsert(t) ==
    /\ UNCHANGED <<exprvars, implvars>>
    /\ thr[t].st = "native_insert"
    /\ native_fcts' = insert_fct(native_fcts, NativePtr(Callee(t)), thr[t].found)
    /\ thr' = [thr EXCEPT ![t].st = "native_ret"]
    /\ UNCHANGED <<locks, jit_fct, compile_stub, code_map, generated, resolved, handed>>

\* ensure_native_stub returns: the guard of native_fcts is dropped
NativeReturn(t) ==
    /\ UNCHANGED <<exprvars, implvars>>
    /\ thr[t].st = "native_ret"
    /\ locks' = [locks EXCEPT ![NATIVE_FCTS] = NoThread]
    /\ handed' = handed \cup {[fid |-> Callee(t), ptr |-> NativePtr(Callee(t)),
                               stub |-> thr[t].found, by |-> t]}
    /\ thr' = [thr EXCEPT ![t] = [@ EXCEPT !.st = "emit", !.k = @ + 1, !.found = NoCode]]
    /\ UNCHANGED <<jit_fct, compile_stub, code_map, native_fcts, generated, resolved>>

\* the code of f is complete: the code map is locked to register it
LockCodeMap(t) ==
    /\ UNCHANGED <<exprvars, implvars>>
    /\ thr[t].st = "emit"
    /\ thr[t].k > Len(CalleesOf(thr[t].f))
    /\ LockFree(CODE_MAP)
    /\ locks' = [locks EXCEPT ![CODE_MAP] = t]
    /\ thr' = [thr EXCEPT ![t].st = "install"]
    /\ UNCHANGED <<jit_fct, compile_stub, code_map, native_fcts, generated,
                   resolved, handed>>

\* the code is registered and becomes src.jit_fct; the compilation ends and
\* releases the FctSrc of f
InstallJit(t) ==
    /\ UNCHANGED <<exprvars, implvars>>
    /\ thr[t].st = "install"
    /\ code_map' = code_map \cup {fct_ptr(thr[t].f)}
    /\ jit_fct' = [jit_fct EXCEPT ![thr[t].f] = fct_ptr(thr[t].f)]
    /\ locks' = [locks EXCEPT ![CODE_MAP] = NoThread, ![SrcLock(thr[t].f)] = NoThread]
    /\ thr' = [thr EXCEPT ![t].st = "idle"]
    /\ UNCHANGED <<compile_stub, native_fcts, generated, resolved, handed>>

NextJit ==
    \E t \in Threads :
        \/ StartCompile(t)
        \/ LockSrc(t)
        \/ PtrForSelf(t)
        \/ LockCalleeSrc(t)
        \/ PtrForSource(t)
        \/ LockNativeFcts(t)
        \/ NativeFind(t)
        \/ NativeGenerate(t)
        \/ NativeInsert(t)
        \/ NativeReturn(t)
        \/ LockCodeMap(t)
        \/ InstallJit(t)

----------------------------------------------------------------------------
(* semck::implck: every impl is checked against the trait it implements.   *)

\* the largest number of methods of the trait and of an impl
MaxTraitMethods == 2
MaxImplMethods == 2
\* the largest number of impls
MaxImpls == 2

\* the class impl i is for
ImplClass(i) == IF i % 2 = 1 THEN "A" ELSE "B"

\* a method: Fct.is_static, Fct.name, Fct.params_without_self(), return type
Method(s, n, ps, r) == [is_static |-> s, name |-> n, params |-> ps, ret |-> r]

\* methods a trait declares; Self is the implementing type
TraitMethods ==
    {Method(s, "foo", ps, "Self") : s \in BOOLEAN, ps \in {<<>>, <<"Self">>}}
    \cup {Method(FALSE, "bar", <<>>, "Unit")}

\* methods an impl for class cls defines
ImplMethods(cls) ==
    {Method(s, "foo", ps, cls) : s \in BOOLEAN, ps \in {<<>>, <<cls>>}}
    \cup {Method(FALSE, "foo", <<IF cls = "A" THEN "B" ELSE "A">>, cls)}
    \cup {Method(FALSE, "bar", <<>>, "Unit")}

SeqsUpTo(S, n) == UNION {[1..k -> S] : k \in 0..n}

\* no two methods of a trait have the same static-ness, name and parameters
DistinctMethods(ms) ==
    \A j, k \in DOMAIN ms :
        /\ ms[j].is_static = ms[k].is_static
        /\ ms[j].name = ms[k].name
        /\ ms[j].params = ms[k].params
        => j = k

\* positions in the source: of impl i, of method j of impl i
ImplPos(i) == 100 * i
MethodPos(i, j) == 100 * i + j

\* a parameter type of a trait method with Self replaced by the class
BindSelf(ty, cls) == IF ty = "Self" THEN cls ELSE ty

\* the trait method's signature is the one asked for
MethodMatches(t, is_static, name, cls, params) ==
    /\ t.is_static = is_static
    /\ t.name = name
    /\ Len(t.params) = Len(params)
    /\ \A k \in DOMAIN params : BindSelf(t.params[k], cls) = params[k]

\* TraitData::find_method: the first method of the trait with this
\* static-ness, name and parameter types (0: None)
find_method(is_static, name, cls, params) ==
    LET found == {k \in DOMAIN xtrait :
                     MethodMatches(xtrait[k], is_static, name, cls, params)}
    IN IF found = {} THEN 0 ELSE CHOOSE k \in found : \A j \in found : k <= j

\* report(ctxt, pos, msg)
report(pos, msg) == Append(diag, [pos |-> pos] @@ msg)

Msg(kind, method) == [msg |-> kind, name |-> method.name, args |-> method.params]

CurImpl == impls[ximpl]
\* xtrait.methods as a set, and the ids no impl method was found for
AllMethods == DOMAIN xtrait

\* an impl method loop that forgets which trait methods were found
CheckImplMethodNoneDefined ==
    /\ ximpl <= Len(impls)
    /\ mtd <= Len(CurImpl.methods)
    /\ LET method == CurImpl.methods[mtd]
           fid == find_method(method.is_static, method.name, CurImpl.cls, method.params)
       IN IF fid # 0
          THEN /\ impl_for' = [impl_for EXCEPT ![ximpl][mtd] = fid]
               /\ UNCHANGED <<defined, diag>>
          ELSE /\ diag' = report(MethodPos(ximpl, mtd),
                                 Msg(IF method.is_static THEN "StaticMethodNotInTrait"
                                     ELSE "MethodNotInTrait", method))
               /\ UNCHANGED <<impl_for, defined>>
    /\ mtd' = mtd + 1
    /\ UNCHANGED <<xtrait, impls, ximpl, visited>>
    /\ UNCHANGED <<exprvars, ctxtvars>>

\* check, one iteration of the loop over ximpl.methods
CheckImplMethod ==
    /\ ximpl <= Len(impls)
    /\ mtd <= Len(CurImpl.methods)
    /\ LET method == CurImpl.methods[mtd]
           fid == find_method(method.is_static, method.name, CurImpl.cls, method.params)
       IN IF fid # 0
          THEN /\ impl_for' = [impl_for EXCEPT ![ximpl][mtd] = fid]
               /\ defined' = defined \cup {fid}
               /\ UNCHANGED diag
          ELSE /\ diag' = report(MethodPos(ximpl, mtd),
                                 Msg(IF method.is_static THEN "StaticMethodNotInTrait"
                                     ELSE "MethodNotInTrait", method))
               /\ UNCHANGED <<impl_for, defined>>
    /\ mtd' = mtd + 1
    /\ UNCHANGED <<xtrait, impls, ximpl, visited>>
    /\ UNCHANGED <<exprvars, ctxtvars>>

\* check, one iteration of the loop over all.difference(&defined), which
\* visits the set in no particular order
ReportMissing ==
    /\ ximpl <= Len(impls)
    /\ mtd > Len(CurImpl.methods)
    /\ \E method_id \in (AllMethods \ defined) \ visited :
          LET method == xtrait[method_id]
          IN /\ diag' = report(ImplPos(ximpl),
                               Msg(IF method.is_static THEN "StaticMethodMissingFromTrait"
                                   ELSE "MethodMissingFromTrait", method))
             /\ visited' = visited \cup {method_id}
    /\ UNCHANGED <<xtrait, impls, ximpl, mtd, defined, impl_for>>
    /\ UNCHANGED <<exprvars, ctxtvars>>

\* check, the next iteration of the loop over ctxt.impls
NextImpl ==
    /\ ximpl <= Len(impls)
    /\ mtd > Len(CurImpl.methods)
    /\ (AllMethods \ defined) \ visited = {}
    /\ ximpl' = ximpl + 1
    /\ mtd' = 1
    /\ defined' = {}
    /\ visited' = {}
    /\ UNCHANGED <<xtrait, impls, impl_for, diag>>
    /\ UNCHANGED <<exprvars, ctxtvars>>

NextImplck ==
    \/ CheckImplMethod
    \/ ReportMissing
    \/ NextImpl

\* no impl is being checked
IdleImplck ==
    /\ xtrait = <<>>
    /\ impls = <<>>
    /\ ximpl = 1
    /\ mtd = 1
    /\ defined = {}
    /\ visited = {}
    /\ impl_for = <<>>
    /\ diag = <<>>

\* one or more impls of one trait; every impl after the first has at most
\* one method
ImplSets ==
    UNION {{[i \in 1..n |-> [cls |-> ImplClass(i), methods |-> ms[i]]] :
              ms \in {f \in [1..n -> SeqsUpTo(ImplMethods("A") \cup ImplMethods("B"),
                                               MaxImplMethods)] :
                        \A i \in 1..n :
                            /\ \A k \in DOMAIN f[i] : f[i][k] \in ImplMethods(ImplClass(i))
                            /\ i > 1 => Len(f[i]) <= 1}} : n \in 1..MaxImpls}

\* the traits: up to MaxTraitMethods methods, no signature twice
Traits == {ms \in SeqsUpTo(TraitMethods, MaxTraitMethods) : DistinctMethods(ms)}

----------------------------------------------------------------------------
(* The expressions compiled: every form over small operands.               *)

CallFn(id, fid, args, ty) ==
    ExprCall(id, NoObject, args, ty, fid,
             CallSite([k \in DOMAIN args |-> ArgExpr(args[k])], CalleeFct(fid), ty, FALSE))

CallMethod(id, obj, fid, args, ty) ==
    ExprCall(id, obj, args, ty, fid,
             CallSite(<<ArgExpr(obj)>> \o [k \in DOMAIN args |-> ArgExpr(args[k])],
                      CalleeFct(fid), ty, FALSE))

\* C(args): the constructor call site, whose first argument is SelfieNew
CallCtor(id, cls, arg) ==
    ExprCall(id, NoObject, <<arg>>, "Class", "ctor",
             CallSite(<<ArgSelfieNew(Kid(id, 7), cls), ArgExpr(arg)>>,
                      CalleeFct("ctor"), "Unit", FALSE))

IntLeaf(id) == {ExprLitInt(id, 4), ExprIdentVar(id, "i")}
BoolLeaf(id) == {ExprIdentVar(id, "a"), ExprIdentVar(id, "b")}
RefLeaf(id) == {ExprIdentVar(id, "o"), ExprSelf(id), ExprNil(id)}

\* operands that contain a call
IntCalls(id) == {CallFn(id, "k", <<>>, "Int"),
                 CallFn(id, "sel1", <<ExprIdentVar(Kid(id, 1), "i")>>, "Int")}
BoolCalls(id) == {CallFn(id, "sel1", <<ExprIdentVar(Kid(id, 1), "b")>>, "Bool")}
RefCalls(id) == {CallFn(id, "mk", <<>>, "Class"), CallFn(id, "fresh", <<>>, "Class")}

IntForms(id, I(_), B(_), R(_)) ==
    {ExprUn(id, "Neg", x, "Int", "IntNeg") : x \in I(Kid(id, 1))}
    \cup {ExprBin(id, "Add", x, y, "Int", f) :
            x \in I(Kid(id, 1)), y \in I(Kid(id, 2)), f \in {"IntAdd", "IntSub"}}
    \cup {ExprAssign(id, ExprIdentVar(Kid(id, 1), "i"), x, "none") : x \in I(Kid(id, 2))}
    \cup {ExprAssign(id, ExprIdentField(Kid(id, 1), "x"), x, "none") : x \in I(Kid(id, 2))}
    \cup {ExprAssign(id, ExprField(Kid(id, 1), o, "x"), x, "none") :
            o \in R(Kid(Kid(id, 1), 1)), x \in I(Kid(id, 2))}
    \cup {ExprIdentField(id, "x")}
    \cup {ExprField(id, o, "x") : o \in R(Kid(id, 1))}
    \cup {CallFn(id, "sel2", <<x, y>>, "Int") : x \in I(Kid(id, 1)), y \in I(Kid(id, 2))}
    \cup {CallFn(id, "may_throw", <<x>>, "Int") : x \in I(Kid(id, 1))}
    \cup {CallFn(id, "nat", <<x>>, "Int") : x \in I(Kid(id, 1))}
    \cup {CallMethod(id, o, "virt", <<>>, "Int") : o \in R(Kid(id, 1))}
    \cup {CallMethod(id, x, "nat", <<>>, "Int") : x \in I(Kid(id, 1))}
    \cup {ExprArray(id, ExprIdentVar(Kid(id, 1), "arr"), x, "Int", "IntArrayGet") :
            x \in I(Kid(id, 2))}
    \cup {ExprAssign(id, ExprArray(Kid(id, 1), ExprIdentVar(Kid(Kid(id, 1), 1), "arr"), x,
                                   "Int", "IntArrayGet"),
                     y, "IntArraySet") :
            x \in I(Kid(Kid(id, 1), 2)), y \in I(Kid(id, 2))}
    \cup {ExprTry(id, CallFn(Kid(id, 1), "may_throw", <<x>>, "Int"), m, y) :
            x \in I(Kid(Kid(id, 1), 1)), y \in I(Kid(id, 2)), m \in {"Else", "Force", "Normal"}}
    \cup {ExprTry(id, ExprTry(Kid(id, 1),
                               CallFn(Kid(Kid(id, 1), 1), "may_throw",
                                      <<ExprIdentVar(Kid(Kid(Kid(id, 1), 1), 1), "i")>>, "Int"),
                               m, CallFn(Kid(Kid(id, 1), 2), "may_throw",
                                         <<ExprIdentVar(Kid(Kid(Kid(id, 1), 2), 1), "i")>>,
                                         "Int")),
                   n, ExprLitInt(Kid(id, 2), 4)) :
            m \in {"Else", "Force", "Normal"}, n \in {"Else", "Force"}}
    \cup {ExprTry(id, CallFn(Kid(id, 1), "k", <<>>, "Int"), "Opt", ExprLitInt(Kid(id, 2), 4))}

BoolForms(id, I(_), B(_), R(_)) ==
    {ExprUn(id, "Not", x, "Bool", "BoolNot") : x \in B(Kid(id, 1))}
    \cup {ExprBin(id, op, x, y, "Bool", "none") :
            x \in B(Kid(id, 1)), y \in B(Kid(id, 2)), op \in {"Or", "And"}}
    \cup {ExprBin(id, op, x, y, "Bool", "IntEq") :
            x \in I(Kid(id, 1)), y \in I(Kid(id, 2)), op \in {"Eq", "Ne"}}
    \cup {ExprBin(id, op, x, y, "Bool", "IntCmp") :
            x \in I(Kid(id, 1)), y \in I(Kid(id, 2)), op \in {"Lt", "Ge"}}
    \cup {ExprBin(id, op, x, y, "Bool", "none") :
            x \in R(Kid(id, 1)), y \in R(Kid(id, 2)), op \in {"Is", "IsNot"}}
    \cup {ExprBin(id, op, x, y, "Bool", "sel2") :
            x \in R(Kid(id, 1)), y \in B(Kid(id, 2)), op \in {"Eq", "Ne"}}
    \cup {ExprBin(id, "Lt", x, y, "Bool", "sel2") :
            x \in R(Kid(id, 1)), y \in I(Kid(id, 2))}
    \cup {ExprAssign(id, ExprIdentVar(Kid(id, 1), "a"), x, "none") : x \in B(Kid(id, 2))}

RefForms(id, I(_), B(_), R(_)) ==
    {ExprAssign(id, ExprIdentVar(Kid(id, 1), "o"), x, "none") : x \in R(Kid(id, 2))}
    \cup {ExprAssign(id, ExprIdentField(Kid(id, 1), "r"), x, "none") : x \in R(Kid(id, 2))}
    \cup {ExprIdentField(id, "r")}
    \cup {ExprUn(id, "Neg", x, "Class", "sel1") : x \in R(Kid(id, 1))}
    \cup {ExprBin(id, "Add", x, y, "Class", "sel2") :
            x \in R(Kid(id, 1)), y \in R(Kid(id, 2))}
    \cup {CallCtor(id, 2, x) : x \in I(Kid(id, 1))}
    \cup {ExprTry(id, x, "Else", ExprNil(Kid(id, 2))) : x \in R(Kid(id, 1))}

\* is / as against every class
ConvForms(id, R(_)) ==
    {ExprConv(id, x, is, FALSE, t) : x \in R(Kid(id, 1)), is \in BOOLEAN, t \in Classes}

\* calls the generator lowers itself: assert, array length, i.plus(j)
IntrinsicCalls(id, I(_), B(_)) ==
    {ExprCall(id, NoObject, <<x>>, "Unit", "Assert", NoSite) : x \in B(Kid(id, 1))}
    \cup {ExprCall(id, ExprIdentVar(Kid(id, 1), "arr"), <<>>, "Int", "IntArrayLen", NoSite)}
    \cup {ExprCall(id, x, <<y>>, "Int", f, NoSite) :
            x \in I(Kid(id, 1)), y \in I(Kid(id, 2)), f \in {"IntAdd", "IntSub"}}

\* the largest number of arguments of a call in the pool
MaxArgs == 4

\* the arguments of sel<n>(..) other than one operand: distinct values
IntLit(id, j) == ExprLitInt(id, 10 + j)
RefLit(id, j) == IF j % 2 = 1 THEN ExprIdentVar(id, "o") ELSE ExprSelf(id)

IntOperands(id) == IntLeaf(id) \cup IntCalls(id)
BoolOperands(id) == BoolLeaf(id) \cup BoolCalls(id)
RefOperands(id) == RefLeaf(id) \cup RefCalls(id)

\* an argument that is itself a call with arguments on the stack
NestedCall(id) ==
    {CallFn(id, "sel3", <<ExprLitInt(Kid(id, 1), 21), ExprLitInt(Kid(id, 2), 22),
                          ExprIdentVar(Kid(id, 3), "i")>>, "Int")}
IntArgs(id) == IntOperands(id) \cup NestedCall(id)

NaryCalls(id) ==
    UNION {UNION {{CallFn(id, SelName[n], [j \in 1..n |->
                                             IF j = p THEN x ELSE IntLit(Kid(id, j), j)],
                          "Int") : x \in IntArgs(Kid(id, p))}
                  \cup {CallFn(id, SelName[n], [j \in 1..n |->
                                                  IF j = p THEN x ELSE RefLit(Kid(id, j), j)],
                               "Class") : x \in RefOperands(Kid(id, p))} :
                  p \in 1..n} : n \in 1..MaxArgs}

\* operands that are themselves || and &&
BoolNested(id) ==
    {ExprBin(id, "And", ExprIdentVar(Kid(id, 1), "a"), ExprIdentVar(Kid(id, 2), "b"),
             "Bool", "none"),
     ExprBin(id, "Or", ExprIdentVar(Kid(id, 1), "b"),
             CallFn(Kid(id, 2), "sel1", <<ExprIdentVar(Kid(Kid(id, 2), 1), "a")>>, "Bool"),
             "Bool", "none")}
BoolDeep(id) == BoolOperands(id) \cup BoolNested(id)

Envs(A, B, Is, Os, Cs, Gs, Ms) ==
    [a : A, b : B, i : Is, o : Os, ocls : Cs, gc : Gs, oom : Ms]

Dests == {REG_RESULT, REG_TMP1, REG_TMP2, REG_PARAMS[1]}

Group(exprs, envs) ==
    {[e |-> x, dest |-> StoreReg(d), env |-> ev, omit |-> FALSE] :
        x \in exprs, d \in Dests, ev \in envs}

\* compiled with or without --omit-bounds-check
GroupFlag(exprs, envs) ==
    {[e |-> x, dest |-> StoreReg(d), env |-> ev, omit |-> f] :
        x \in exprs, d \in Dests, ev \in envs, f \in BOOLEAN}

\* a literal or local of a type
TypedLeaf(id, ty) ==
    CASE ty = "Int" -> ExprIdentVar(id, "i")
      [] ty = "Bool" -> ExprIdentVar(id, "a")
      [] ty \in {"Byte", "Long"} -> ExprLitSuffix(id, ty, 3)
      [] ty \in {"Float", "Double"} ->
         Node("LitFloat", id, ty) @@ [suffix |-> ty, value |-> 3]
      [] ty = "Str" -> ExprIdentVar(id, "barr")
      [] ty = "ByteArray" -> ExprIdentVar(id, "barr")
      [] ty = "IntArray" -> ExprIdentVar(id, "arr")
      [] ty = "LongArray" -> ExprIdentVar(id, "larr")

\* the type an intrinsic is a method of
IntrinsicOwner(f) ==
    CASE f \in {"ByteArrayLen", "ByteArrayGet", "ByteArraySet"} -> "ByteArray"
      [] f \in {"IntArrayLen", "IntArrayGet", "IntArraySet"} -> "IntArray"
      [] f \in {"LongArrayLen", "LongArrayGet", "LongArraySet"} -> "LongArray"
      [] f \in {"StrLen", "StrGet", "StrSet"} -> "Str"
      [] f \in {"BoolToInt", "BoolToLong", "BoolEq", "BoolNot"} -> "Bool"
      [] f \in {"ByteToInt", "ByteToLong", "ByteEq", "ByteCmp", "ByteNot"} -> "Byte"
      [] f \in {"LongToByte", "LongToInt", "LongEq", "LongCmp", "LongNot", "LongNeg",
                "LongPlus"} \cup LongIntrinsics -> "Long"
      [] f \in {"FloatEq", "FloatCmp", "FloatAdd", "FloatSub", "FloatMul", "FloatDiv"} ->
         "Float"
      [] f \in {"DoubleEq", "DoubleCmp", "DoubleAdd", "DoubleSub", "DoubleMul",
                "DoubleDiv"} -> "Double"
      [] OTHER -> "Int"

\* the intrinsics that take the receiver only
UnaryIntrinsics ==
    {"ByteArrayLen", "IntArrayLen", "LongArrayLen", "StrLen",
     "BoolToInt", "BoolToLong", "ByteToInt", "ByteToLong",
     "IntToByte", "IntToLong", "LongToByte", "LongToInt",
     "BoolNot", "ByteNot", "IntNot", "IntNeg", "IntPlus", "LongNot", "LongNeg", "LongPlus"}

\* the result type of an intrinsic
IntrinsicResult(f) ==
    CASE f \in {"BoolEq", "ByteEq", "IntEq", "LongEq", "FloatEq", "DoubleEq", "BoolNot"} ->
         "Bool"
      [] f \in {"Assert", "SetUint8", "StrSet", "ByteArraySet", "IntArraySet",
                "LongArraySet"} -> "Unit"
      [] f \in {"FloatAdd", "FloatSub", "FloatMul", "FloatDiv"} -> "Float"
      [] f \in {"DoubleAdd", "DoubleSub", "DoubleMul", "DoubleDiv"} -> "Double"
      [] OTHER -> "Int"

\* x.f(..): intrinsic f as the resolved target of a call expression
IntrinsicCall(id, f) ==
    CASE f = "Assert" ->
         ExprCall(id, NoObject, <<ExprIdentVar(Kid(id, 1), "a")>>, "Unit", f, NoSite)
      [] f \in {"Shl", "SetUint8"} ->
         ExprCall(id, NoObject, <<ExprIdentVar(Kid(id, 1), "i"),
                                  ExprLitInt(Kid(id, 2), 1)>>,
                  IntrinsicResult(f), f, NoSite)
      [] f \in UnaryIntrinsics ->
         ExprCall(id, TypedLeaf(Kid(id, 1), IntrinsicOwner(f)), <<>>,
                  IntrinsicResult(f), f, NoSite)
      [] f \in {"StrGet", "ByteArrayGet", "IntArrayGet", "LongArrayGet"} ->
         ExprCall(id, TypedLeaf(Kid(id, 1), IntrinsicOwner(f)),
                  <<ExprIdentVar(Kid(id, 2), "i")>>, IntrinsicResult(f), f, NoSite)
      [] f \in {"StrSet", "ByteArraySet", "IntArraySet", "LongArraySet"} ->
         ExprCall(id, TypedLeaf(Kid(id, 1), IntrinsicOwner(f)),
                  <<ExprIdentVar(Kid(id, 2), "i"), ExprLitInt(Kid(id, 3), 4)>>,
                  IntrinsicResult(f), f, NoSite)
      [] OTHER ->
         ExprCall(id, TypedLeaf(Kid(id, 1), IntrinsicOwner(f)),
                  <<TypedLeaf(Kid(id, 2), IntrinsicOwner(f))>>,
                  IntrinsicResult(f), f, NoSite)

\* every intrinsic as the target of a call, and an intrinsic the unary,
\* array and assignment dispatchers do not know
IntrinsicCases ==
    {[e |-> IntrinsicCall(1, f),
      dest |-> IF is_float(IntrinsicResult(f)) THEN StoreFReg(FREG_RESULT)
               ELSE StoreReg(d),
      env |-> ev, omit |-> FALSE] :
        f \in Intrinsics, d \in {REG_RESULT, REG_TMP1},
        ev \in Envs({0, 1}, {1}, {0, 1}, {OBJ_ADDR}, {2}, {TRUE}, {FALSE})}
    \cup Group({ExprUn(1, "Neg", ExprIdentVar(9, "i"), "Int", "IntAdd"),
                ExprArray(1, ExprIdentVar(9, "arr"), ExprIdentVar(10, "i"), "Int", "IntAdd"),
                ExprAssign(1, ExprArray(9, ExprIdentVar(73, "arr"), ExprIdentVar(74, "i"),
                                        "Int", "IntArrayGet"),
                           ExprLitInt(10, 4), "IntAdd")},
               Envs({0}, {1}, {1}, {OBJ_ADDR}, {2}, {TRUE}, {FALSE}))

\* float-typed expressions, compiled into a floating-point register
FloatForms(id) ==
    {ExprLitFloat(id, 2),
     ExprBin(id, "Add", ExprLitFloat(Kid(id, 1), 2), ExprLitFloat(Kid(id, 2), 3),
             "Float", "FloatAdd"),
     ExprBin(id, "Mul", ExprBin(Kid(id, 1), "Sub", ExprLitFloat(Kid(Kid(id, 1), 1), 5),
                                ExprLitFloat(Kid(Kid(id, 1), 2), 3), "Float", "FloatSub"),
             ExprLitFloat(Kid(id, 2), 3), "Float", "FloatMul"),
     ExprIdentVar(id, "f"),
     ExprIdentField(id, "y"),
     ExprField(id, ExprSelf(Kid(id, 1)), "y"),
     ExprAssign(id, ExprIdentVar(Kid(id, 1), "f"), ExprLitFloat(Kid(id, 2), 3), "none"),
     CallFn(id, "kf", <<>>, "Float"),
     ExprBin(id, "Add", ExprIdentVar(Kid(id, 1), "f"), ExprLitFloat(Kid(id, 2), 3),
             "Float", "FloatAdd")}
FloatCases ==
    {[e |-> x, dest |-> StoreFReg(d), env |-> ev, omit |-> FALSE] :
        x \in FloatForms(1), d \in FRegs,
        ev \in Envs({0}, {1}, {1}, {OBJ_ADDR}, {2}, {TRUE}, {FALSE})}

\* may_throw(x), which raises when x is 0
MayThrow(id, x) == CallFn(id, "may_throw", <<ExprLitInt(Kid(id, 1), x)>>, "Int")

\* a try in the tried expression of a try, and a try in the alternative of
\* a try-else; every call raises or returns
NestedTryForms(id) ==
    {ExprTry(id, ExprTry(Kid(id, 1), MayThrow(Kid(Kid(id, 1), 1), x), m,
                         MayThrow(Kid(Kid(id, 1), 2), y)),
             n, MayThrow(Kid(id, 2), z)) :
        x \in {0, 1}, y \in {0, 2}, z \in {0, 3}, m \in {"Else", "Force"},
        n \in {"Else", "Force"}}
    \cup {ExprTry(id, MayThrow(Kid(id, 1), x), "Else",
                  ExprTry(Kid(id, 2), MayThrow(Kid(Kid(id, 2), 1), y), m,
                          MayThrow(Kid(Kid(id, 2), 2), z))) :
             x \in {0, 1}, y \in {0, 2}, z \in {0, 3}, m \in {"Else", "Force"}}
NestedTryCases ==
    Group(NestedTryForms(1), Envs({0}, {1}, {1}, {OBJ_ADDR}, {2}, {TRUE}, {FALSE}))

\* a literal of type ty
Lit(id, ty, v) ==
    CASE ty = "Int" -> ExprLitInt(id, v)
      [] ty = "Bool" -> ExprLitBool(id, v # 0)
      [] ty \in {"Byte", "Long"} -> ExprLitSuffix(id, ty, v)
      [] ty \in {"Float", "Double"} ->
         Node("LitFloat", id, ty) @@ [suffix |-> ty, value |-> v]

\* the comparison intrinsics as the target of a binary operator: x op 1
CompareOps == {"Eq", "Ne", "Gt", "Ge", "Lt", "Le"}
CompareForms(id) ==
    {ExprBin(id, op, Lit(Kid(id, 1), IntrinsicOwner(f), x),
             Lit(Kid(id, 2), IntrinsicOwner(f), 1), "Bool", f) :
        f \in EqIntrinsics \cup CmpIntrinsics, op \in CompareOps, x \in {0, 1, 2}}

\* operand values of x.compareTo(y) and x.equals(y), by type: for Int the
\* least and the greatest value of the type are among them
CompareValues(ty) ==
    CASE ty = "Int" -> {I32_MIN, 0 - 1, 0, 1, I32_MAX}
      [] ty = "Byte" -> {0, 1, 127}
      [] ty = "Bool" -> {0, 1}
      [] OTHER -> {0 - 1, 0, 1}

\* the comparison intrinsics as the target of a method call: x.f(y)
MethodCompareForms(id) ==
    UNION {{ExprCall(id, Lit(Kid(id, 1), IntrinsicOwner(f), x),
                     <<Lit(Kid(id, 2), IntrinsicOwner(f), y)>>,
                     IntrinsicResult(f), f, NoSite) :
               x \in CompareValues(IntrinsicOwner(f)),
               y \in CompareValues(IntrinsicOwner(f))} :
           f \in EqIntrinsics \cup CmpIntrinsics}

CompareCases ==
    Group(CompareForms(1) \cup MethodCompareForms(1),
          Envs({0}, {1}, {1}, {OBJ_ADDR}, {2}, {TRUE}, {FALSE}))

\* call sites of every kind of callee: super calls, a recursive call, a call
\* of a native function by pointer, delegations, callees without code
SuperCall(id, obj, fid) ==
    ExprCall(id, obj, <<>>, "Int", fid,
             CallSite(<<ArgExpr(obj)>>, CalleeFct(fid), "Int", TRUE))
DispatchForms(id) ==
    {SuperCall(id, o, f) : o \in {ExprSelf(Kid(id, 1)), ExprIdentVar(Kid(id, 1), "o")},
                           f \in {"virt", "k", "nat", "defn"}}
    \cup {CallFn(id, f, <<>>, "Int") : f \in {SelfFct, "defn"}}
    \cup {ExprCall(id, NoObject, <<ExprIdentVar(Kid(id, 1), "i")>>, "Int", "nat",
                   CallSite(<<ArgExpr(ExprIdentVar(Kid(id, 1), "i"))>>,
                            CalleePtr("nat_ptr"), "Int", FALSE))}
    \cup {ExprDelegation(id, CallSite(<<ArgSelfie(Kid(id, 7))>>, CalleeFct(f), "Unit", sup)) :
             f \in {"k", "virt", "IntAdd"}, sup \in BOOLEAN}
DispatchCases ==
    Group(DispatchForms(1), Envs({0}, {1}, {0, 1}, {OBJ_ADDR, NIL}, {2}, {TRUE}, {FALSE}))

\* element reads and writes of the three array types
ArrayKinds ==
    {[var |-> "arr", ty |-> "Int", get |-> "IntArrayGet", set |-> "IntArraySet"],
     [var |-> "larr", ty |-> "Long", get |-> "LongArrayGet", set |-> "LongArraySet"],
     [var |-> "barr", ty |-> "Byte", get |-> "ByteArrayGet", set |-> "ByteArraySet"]}
ArrayIndexes(id) == IntLeaf(id) \cup {CallFn(id, "k", <<>>, "Int")}
ArrayForms(id) ==
    UNION {{ExprArray(id, ExprIdentVar(Kid(id, 1), a.var), x, a.ty, a.get) :
               x \in ArrayIndexes(Kid(id, 2))}
           \cup {ExprAssign(id, ExprArray(Kid(id, 1),
                                          ExprIdentVar(Kid(Kid(id, 1), 1), a.var), x,
                                          a.ty, a.get),
                            ExprLitSuffix(Kid(id, 2), a.ty, v), a.set) :
                    x \in ArrayIndexes(Kid(Kid(id, 1), 2)), v \in {4, 0 - 3}} :
           a \in ArrayKinds}

\* a conversion semantic analysis proved valid: the static class of o is t
ValidConvs ==
    UNION {Group({ExprConv(1, ExprIdentVar(9, "o"), is, TRUE, t) : is \in BOOLEAN},
                 Envs({0}, {1}, {1}, {OBJ_ADDR, NIL}, {c \in Classes : IsSubclass(c, t)},
                      {TRUE}, {FALSE})) : t \in Classes}

Cases ==
    Group(IntForms(1, IntOperands, BoolOperands, RefOperands),
          Envs({0}, {1}, {0, 1}, {OBJ_ADDR}, {2}, {TRUE}, {FALSE}))
    \cup Group(BoolForms(1, IntOperands, BoolDeep, RefOperands),
               Envs({0, 1}, {0, 1}, {1}, {OBJ_ADDR}, {2}, {TRUE}, {FALSE}))
    \cup Group(RefForms(1, IntOperands, BoolOperands, RefOperands),
               Envs({0}, {1}, {1}, {OBJ_ADDR, NIL}, {2}, {TRUE}, BOOLEAN))
    \cup Group(ConvForms(1, RefLeaf),
               Envs({0}, {1}, {1}, {OBJ_ADDR, NIL}, Classes, {TRUE}, {FALSE}))
    \cup ValidConvs
    \cup Group(IntrinsicCalls(1, IntOperands, BoolDeep),
               Envs({0, 1}, {0, 1}, {1}, {OBJ_ADDR}, {2}, {TRUE}, {FALSE}))
    \cup Group(NaryCalls(1), Envs({0}, {1}, {1}, {OBJ_ADDR}, {2}, {TRUE}, {FALSE}))
    \cup FloatCases
    \cup IntrinsicCases
    \cup DispatchCases
    \cup CompareCases
    \cup NestedTryCases
    \cup GroupFlag(ArrayForms(1), Envs({0}, {1}, {0, 1}, {OBJ_ADDR}, {2}, {TRUE}, {FALSE}))

Init ==
    /\ \E c \in Cases :
          /\ prog = [e |-> c.e, dest |-> c.dest, omit |-> c.omit]
          /\ env = c.env
          /\ frame = InitFrame(c.env)
          /\ heap = InitHeap(c.env)
    /\ out = NewMasm
    /\ phase = "new"
    /\ pc = 1
    /\ regs = InitRegs
    /\ flags = <<JUNK, JUNK>>
    /\ trap = [kind |-> "none", pos |-> 0]
    /\ log = <<>>
    /\ InitCtxt
    /\ IdleImplck

Spec == Init /\ [][Next]_vars

\* the compiler threads alone: no expression is being run
InitJit ==
    /\ InitCtxt
    /\ IdleImplck
    /\ prog = [e |-> ExprNil(1), dest |-> StoreReg(REG_RESULT), omit |-> FALSE]
    /\ env = [a |-> 0, b |-> 0, i |-> 0, o |-> NIL, ocls |-> 1, gc |-> TRUE, oom |-> FALSE]
    /\ frame = InitFrame(env)
    /\ heap = InitHeap(env)
    /\ out = NewMasm
    /\ phase = "new"
    /\ pc = 1
    /\ regs = InitRegs
    /\ flags = <<JUNK, JUNK>>
    /\ trap = [kind |-> "none", pos |-> 0]
    /\ log = <<>>

SpecJit == InitJit /\ [][NextJit]_vars

\* the impl check of one trait and its impls; nothing is compiled
InitImpl ==
    /\ InitCtxt
    /\ prog = [e |-> ExprNil(1), dest |-> StoreReg(REG_RESULT), omit |-> FALSE]
    /\ env = [a |-> 0, b |-> 0, i |-> 0, o |-> NIL, ocls |-> 1, gc |-> TRUE, oom |-> FALSE]
    /\ frame = InitFrame(env)
    /\ heap = InitHeap(env)
    /\ out = NewMasm
    /\ phase = "new"
    /\ pc = 1
    /\ regs = InitRegs
    /\ flags = <<JUNK, JUNK>>
    /\ trap = [kind |-> "none", pos |-> 0]
    /\ log = <<>>
    /\ xtrait \in Traits
    /\ impls \in ImplSets
    /\ ximpl = 1
    /\ mtd = 1
    /\ defined = {}
    /\ visited = {}
    /\ impl_for = [i \in DOMAIN impls |-> [k \in DOMAIN impls[i].methods |-> 0]]
    /\ diag = <<>>

SpecImpl == InitImpl /\ [][NextImplck]_vars

----------------------------------------------------------------------------
(* Properties of the generator and of the code it emits.                   *)

Compiled == phase # "new" /\ out.panic = "none"
Finished == phase = "done" /\ Meaning.r = "ok"
HasValue == prog.e.ty # "Unit"

\* positions of the call instructions in the emitted code
Calls == {k \in DOMAIN out.code : out.code[k].op = "call"}

\* C1: when the code emitted by emit_expr(e, dest) finishes, dest holds the
\* value of e, whatever general-purpose register dest is.
C1_ValueInDest == Finished /\ HasValue => regs[prog.dest.r] = Meaning.v

\* C2: after generate the live-temp set is empty, and generate panics with
\* 'temporary variables are not fully freed!' exactly when it is not; no
\* well-formed expression leaves a temp behind.
C2_TempsFreed ==
    phase # "new" =>
        /\ out.panic # "temporary variables are not fully freed!"
        /\ out.panic = "none" => out.temps = {}

\* an expression that held two reference temps at one of its calls
C2_TempsWereLive ==
    /\ phase = "run"
    /\ out.temps = {}
    /\ \E k \in Calls : Cardinality(out.code[k].live) >= 2

LinenosAt(p) == {j \in DOMAIN out.linenos : out.linenos[j].pos = p}
GcPointsAt(p) == {j \in DOMAIN out.gcpoints : out.gcpoints[j].pos = p}

\* C3: every call instruction has, at the position right after it, one
\* line-number record and one GC point, whose roots are the scope variables
\* and the temps live at the call; there are no other GC points.
C3_CallsRecorded ==
    Compiled =>
        /\ \A k \in Calls :
              /\ Cardinality(LinenosAt(k + 1)) = 1
              /\ Cardinality(GcPointsAt(k + 1)) = 1
              /\ RootsAt(k + 1) = ScopeVars \cup out.code[k].live
        /\ Len(out.gcpoints) = Cardinality(Calls)
        /\ Len(out.linenos) = Cardinality(Calls)

\* a constructor call: gc_alloc through a native stub, then a direct call
\* made while the new object is a live temp
C3_AllocThenCall ==
    /\ Compiled
    /\ \E j \in Calls, k \in Calls :
          /\ j < k
          /\ out.code[j].kind = "direct" /\ out.code[j].ptr.k = "native"
          /\ out.code[k].kind = "direct" /\ out.code[k].ptr.k # "native"
          /\ out.code[k].live # {}
          /\ RootsAt(k + 1) # ScopeVars

\* the temp slot at frame offset off is read by an instruction after pc
LoadedLater(off) ==
    \E l \in (pc + 1)..Len(out.code) :
        /\ out.code[l].op = "load"
        /\ out.code[l].m = LocalMem(off)

\* temp slots that hold a reference to an object the code still needs
SpilledRefs ==
    {off \in DOMAIN frame :
        off < 0 - LOCALSIZE /\ frame[off] \in ObjAddrs /\ LoadedLater(off)}

\* C4: at every call, each temp slot that holds a spilled reference is in
\* the root set of the call's GC point.
C4_SpilledRefsRooted ==
    Running /\ Instr.op = "call" => SpilledRefs \subseteq RootsAt(pc + 1)

\* the root expression is x is T (is = TRUE) or x as T (is = FALSE)
IsConv(is) == prog.e.k = "Conv" /\ prog.e.is = is
ConvObject == Eval(prog.e.object, Sem0(env)).v
ConvTarget == prog.e.conv.cls_id
ConvClass == ClassOfObj(InitHeap(env), ConvObject)
Aborted == phase \in {"trap", "fault", "panic", "unwound"}

\* S <: T as the Cohen display of the vtable of S decides it
CohenSubtype(s, t) ==
    IF Depth(t) < DISPLAY_SIZE
    THEN VTableWord(s, OFFSET_OF_DISPLAY + Depth(t) * PTR_WIDTH) = VTableAddr(t)
    ELSE /\ VTableWord(s, OFFSET_OF_DEPTH) >= Depth(t)
         /\ VTableMem(VTableWord(s, OFFSET_OF_OVERFLOW)
                      + PTR_WIDTH * (Depth(t) - DISPLAY_SIZE)) = VTableAddr(t)

\* C5: the code of x is T always finishes, with true in dest exactly when x
\* is not nil and the class of x is a subtype of T by the Cohen display, and
\* false otherwise; a conversion proven valid at compile time included.
C5_IsLowering ==
    IsConv(TRUE) =>
        /\ ~Aborted
        /\ phase = "done" =>
              regs[prog.dest.r] =
                  IF ConvObject # NIL /\ CohenSubtype(ConvClass, ConvTarget) THEN 1 ELSE 0

\* is answered true on the overflow path, by the run-time check
C5_TrueByOverflow ==
    /\ IsConv(TRUE)
    /\ phase = "done"
    /\ regs[prog.dest.r] = 1
    /\ ~prog.e.conv.valid
    /\ Depth(ConvTarget) >= DISPLAY_SIZE
    /\ ConvClass # ConvTarget

\* C6: the code of x as T leaves nil in dest for nil and the object in dest
\* for an object of a subtype of T, without a trap; for any other object it
\* ends in the CAST trap of the conversion and never finishes.
C6_AsLowering ==
    IsConv(FALSE) =>
        /\ phase \notin {"fault", "panic", "unwound"}
        /\ IF ConvObject = NIL \/ IsSubclass(ConvClass, ConvTarget)
           THEN /\ phase # "trap"
                /\ phase = "done" => regs[prog.dest.r] = ConvObject
           ELSE /\ phase # "done"
                /\ phase = "trap" => trap = [kind |-> "CAST", pos |-> prog.e.id]

\* a failed cast on the display path
C6_CastTrapByDisplay ==
    /\ IsConv(FALSE)
    /\ phase = "trap"
    /\ trap.kind = "CAST"
    /\ Depth(ConvTarget) < DISPLAY_SIZE

\* C7: every label the generator created is bound exactly once when generate
\* returns.
C7_LabelsBoundOnce ==
    Compiled => \A l \in DOMAIN out.labels : out.labels[l].binds = 1

\* an assert of a || or &&: the assert label and the labels of the operand
C7_AssertOverShortCircuit ==
    /\ Compiled
    /\ prog.e.k = "Call"
    /\ Len(out.bailouts) = 1
    /\ Len(out.labels) >= 4

\* the root expression is a || b or a && b
IsShortCircuit == prog.e.k = "Bin" /\ prog.e.op \in {"Or", "And"}
LhsValue == Eval(prog.e.lhs, Sem0(env)).v
RhsValue == Eval(prog.e.rhs, Eval(prog.e.lhs, Sem0(env))).v

\* the test of a: the first test that jumps to lbl_true or lbl_false
LhsTest ==
    CHOOSE k \in DOMAIN out.code :
        /\ out.code[k].op = "test_jump" /\ out.code[k].l \in {1, 2}
        /\ \A j \in 1..(k - 1) : ~(out.code[j].op = "test_jump" /\ out.code[j].l \in {1, 2})
\* the code of b lies between the test of a and the test of b
RhsCode == (LhsTest + 1)..(Len(out.code) - 4)

\* C8: the code of b runs only when a was false (a || b), only when a was
\* true (a && b); the calls made are those of an evaluation that skips b.
C8_ShortCircuit ==
    IsShortCircuit /\ Compiled =>
        /\ phase = "run" /\ pc \in RhsCode =>
              IF prog.e.op = "Or" THEN LhsValue = 0 ELSE LhsValue # 0
        /\ phase = "done" =>
              [k \in DOMAIN log |-> [f |-> log[k].f, args |-> log[k].args]] = Meaning.calls

\* a || b with a true and b a call: finished without the call of b
C8_CallSkipped ==
    /\ IsShortCircuit
    /\ phase = "done"
    /\ prog.e.op = "Or"
    /\ prog.e.rhs.k = "Call"
    /\ LhsValue = 1
    /\ log = <<>>

\* C9: the code of a || b (a && b) finishes with 1 or 0 in dest, a OR b
\* (a AND b); lbl_true, lbl_false and lbl_end are the last three positions:
\* load_true and the jump to lbl_end, load_false, and the end.
C9_MaterialisedBoolean ==
    IsShortCircuit /\ Compiled =>
        /\ ~Aborted
        /\ phase = "done" =>
              regs[prog.dest.r] =
                  IF prog.e.op = "Or"
                  THEN (IF LhsValue # 0 \/ RhsValue # 0 THEN 1 ELSE 0)
                  ELSE (IF LhsValue # 0 /\ RhsValue # 0 THEN 1 ELSE 0)
        /\ out.labels[1].pos = Len(out.code) - 2
        /\ out.code[Len(out.code) - 2] = [op |-> "const", d |-> prog.dest.r, v |-> 1]
        /\ out.code[Len(out.code) - 1] = [op |-> "jump", l |-> 3]
        /\ out.labels[2].pos = Len(out.code)
        /\ out.code[Len(out.code)] = [op |-> "const", d |-> prog.dest.r, v |-> 0]
        /\ out.labels[3].pos = Len(out.code) + 1

\* a && b true in a dest that is not REG_RESULT
C9_TrueInOtherDest ==
    /\ IsShortCircuit
    /\ phase = "done"
    /\ prog.e.op = "And"
    /\ prog.dest.r # REG_RESULT
    /\ regs[prog.dest.r] = 1

\* the root expression is a call lowered by emit_universal_call
IsUniversalCall == prog.e.k = "Call" /\ intrinsic(prog.e) = "none"
\* the call instruction of the root expression: the last one emitted
RootCall == CHOOSE k \in Calls : \A j \in Calls : j <= k
AtRootCall == IsUniversalCall /\ phase = "run" /\ Calls # {} /\ pc = RootCall
ArgValues == EvalArgs(prog.e.csite.args, 1, <<>>, Sem0(env))

\* C10: at the call instruction, argument i is in REG_PARAMS[i] or, past
\* the registers, in the frame slot at -stacksize + 8 * (i - |REG_PARAMS|),
\* and it is the value the expression of argument i produced.
C10_ArgumentsInPlace ==
    AtRootCall /\ ArgValues.r = "ok" =>
        \A i \in DOMAIN prog.e.csite.args :
            IF i <= Len(REG_PARAMS)
            THEN regs[REG_PARAMS[i]] = ArgValues.v[i]
            ELSE ReadFrame(frame, 0 - STACKSIZE + 8 * (i - Len(REG_PARAMS) - 1))
                     = ArgValues.v[i]

\* a call with arguments on the stack, one of them a call with arguments on
\* the stack
C10_NestedStackArgs ==
    /\ AtRootCall
    /\ Len(prog.e.csite.args) > Len(REG_PARAMS) + 1
    /\ Cardinality(Calls) >= 2
    /\ \E k \in DOMAIN log : Len(log[k].args) > Len(REG_PARAMS)

\* the root expression is lowered by emit_universal_call
LoweredByCall ==
    /\ prog.e.k \in {"Call", "Un", "Bin"}
    /\ prog.e.call.some
    /\ intrinsic(prog.e) = "none"

\* the types whose values may be null
Nullable == {"Str", "Nil", "Ptr", "ByteArray", "IntArray", "LongArray", "Class"}

\* the call site is a method call whose receiver may be null
ReceiverChecked ==
    /\ prog.e.call.is_method
    /\ Len(prog.e.csite.args) > 0
    /\ prog.e.csite.args[1].ty \in Nullable

\* the labels of the NIL bailouts emitted at the position of the root node
NilBailoutLabels ==
    {out.bailouts[k].l : k \in {j \in DOMAIN out.bailouts :
                                  /\ out.bailouts[j].trap = "NIL"
                                  /\ out.bailouts[j].pos = prog.e.id}}

\* the null checks of the root call: the tests that jump to such a label
NilChecks ==
    {k \in DOMAIN out.code :
        out.code[k].op = "test_jump" /\ out.code[k].l \in NilBailoutLabels}

\* C11: the universal call has one NIL null check, on REG_PARAMS[0], right
\* after the load of argument 0 and before the call instruction, exactly
\* when the call is a method call with a nullable receiver type, and no
\* check otherwise; the callee is never entered with a null receiver, which
\* ends in the NIL trap instead.
C11_NilCheckOnReceiver ==
    LoweredByCall /\ Compiled =>
        /\ IF ReceiverChecked
           THEN /\ Cardinality(NilChecks) = 1
                /\ \A k \in NilChecks :
                      /\ k < RootCall
                      /\ out.code[k].r = REG_PARAMS[1] /\ out.code[k].cc = "Zero"
                      /\ out.code[k - 1].op = "load"
                      /\ out.code[k - 1].d = REG_PARAMS[1]
                      /\ out.code[k - 1].m =
                             LocalMem(TempOffset(prog.e.csite.args[1].offset))
           ELSE NilChecks = {} /\ NilBailoutLabels = {}
        /\ ReceiverChecked /\ phase = "run" /\ pc = RootCall =>
              regs[REG_PARAMS[1]] # NIL
        /\ ReceiverChecked /\ ArgValues.r = "ok" /\ ArgValues.v[1] = NIL =>
              /\ phase \notin {"done", "fault", "unwound"}
              /\ phase = "trap" => trap = [kind |-> "NIL", pos |-> prog.e.id]
              /\ \A j \in DOMAIN log : log[j].at # RootCall

\* a virtual method call on a null receiver ended in the NIL trap
C11_NullReceiverTrapped ==
    /\ LoweredByCall
    /\ ReceiverChecked
    /\ phase = "trap"
    /\ trap = [kind |-> "NIL", pos |-> prog.e.id]
    /\ out.code[RootCall].kind = "indirect"
    /\ log = <<>>

\* a method call on an Int receiver of value 0 entered the callee
C11_ZeroIntReceiverCalled ==
    /\ LoweredByCall
    /\ prog.e.call.is_method
    /\ prog.e.csite.args[1].ty = "Int"
    /\ \E j \in DOMAIN log : log[j].at = RootCall /\ log[j].args[1] = 0

\* the root expression is c.v = e with an explicit receiver c that is null
NullFieldAssign ==
    /\ prog.e.k = "Assign"
    /\ prog.e.lhs.k = "Field"
    /\ Eval(prog.e.lhs.object, Sem0(env)).v = NIL
    /\ Meaning.r = "NIL"

\* C12: the code of a field assignment c.v = e whose receiver is null ends
\* in the NIL trap of the assignment; it neither finishes nor reaches the
\* store through the null receiver.
C12_NullFieldAssignTraps ==
    NullFieldAssign =>
        /\ phase \notin {"done", "fault"}
        /\ phase = "trap" => trap = [kind |-> "NIL", pos |-> prog.e.id]
        /\ Running /\ Instr.op = "store" /\ Instr.m.base # "fp" =>
              regs[Instr.m.base] # NIL

\* the mutex thread t has to acquire to go on ("none": it needs none)
Wanted(t) ==
    IF thr[t].st = "want_src" THEN SrcLock(thr[t].f)
    ELSE IF thr[t].st = "callee"
    THEN (IF StubMissing(Callee(t)) THEN CODE_MAP ELSE "none")
    ELSE IF thr[t].st # "emit" THEN "none"
    ELSE IF ~Emitting(t) THEN CODE_MAP
    ELSE IF Callee(t) = thr[t].f
    THEN (IF StubMissing(Callee(t)) THEN CODE_MAP ELSE "none")
    ELSE IF Fct(Callee(t)).kind = "Native" THEN NATIVE_FCTS
    ELSE SrcLock(Callee(t))

\* thread t waits for a mutex that thread u holds
WaitsFor(t, u) == Wanted(t) # "none" /\ locks[Wanted(t)] = u

\* C13: concurrent compilations never deadlock: no two threads each wait
\* for a mutex the other one holds.
C13_NoDeadlock ==
    \A t \in Threads, u \in Threads : ~(t # u /\ WaitsFor(t, u) /\ WaitsFor(u, t))

\* the stub pointers handed out for a source function that has no code yet
StubsFor(g) == {r.ptr : r \in {q \in resolved : q.fid = g /\ q.jit = NoCode}}

\* C14: every call of ensure_jit_or_stub_ptr made while src.jit_fct is
\* absent returns the one lazy-compile stub; every call made once it is
\* present returns the entry of that code, not the stub; src.jit_fct changes
\* only when the compilation of the function itself installs its code.
C14_StubUntilCompiled ==
    /\ \A r \in resolved :
          IF r.jit = NoCode
          THEN r.ptr.k = "stub" /\ r.ptr = compile_stub
          ELSE r.ptr = fct_ptr(r.fid) /\ r.ptr = jit_fct[r.fid]
    /\ \A g \in Compilable : Cardinality(StubsFor(g)) <= 1
    /\ \A t \in Threads :
          thr[t].st = "callee" => locks[SrcLock(Callee(t))] = t

\* the same function was resolved to the stub first and to its code later
C14_StubThenCode ==
    \E r \in resolved, q \in resolved :
        /\ r.fid = q.fid
        /\ r.jit = NoCode /\ r.ptr.k = "stub"
        /\ q.jit # NoCode /\ q.ptr.k = "jit"

\* C15: native::generate runs at most once per raw pointer, all requesters
\* of one raw pointer receive the same stub, whichever function they
\* resolve, and distinct raw pointers have distinct cache entries.
C15_OneStubPerPointer ==
    /\ \A p \in DOMAIN generated : generated[p] <= 1
    /\ \A h \in handed, g \in handed : h.ptr = g.ptr => h.stub = g.stub
    /\ \A h \in handed : h.stub.k = "native" /\ h.stub = native_fcts[h.ptr]
    /\ \A p \in DOMAIN native_fcts, q \in DOMAIN native_fcts :
          p # q => native_fcts[p] # native_fcts[q]
    /\ \A p \in DOMAIN native_fcts : generated[p] = 1

\* two threads received the stub of one raw pointer, for two functions,
\* while another raw pointer has its own entry
C15_SharedByTwoThreads ==
    /\ \E h \in handed, g \in handed :
          h.by # g.by /\ h.fid # g.fid /\ h.ptr = g.ptr /\ h.stub = g.stub
    /\ Cardinality(DOMAIN native_fcts) = 2

\* the try expressions on the spine of e that register a handler
RECURSIVE HandledTries(_)
HandledTries(e) ==
    IF e.k # "Try" THEN 0
    ELSE (IF e.mode \in {"Else", "Force"} THEN 1 ELSE 0) + HandledTries(e.expr)
         + (IF e.mode = "Else" THEN HandledTries(e.alt) ELSE 0)

\* the root expression is a try, in Else or Force mode
RootTry == prog.e.k = "Try"
RootHandled == RootTry /\ prog.e.mode \in {"Else", "Force"}
\* the handler of the root try: the last one registered
RootHandler == out.handlers[Len(out.handlers)]
\* the number of instructions of the tried expression
TriedLen == Len(generate(prog.e.expr, prog.dest).code)

\* C16: every try in Else or Force mode registers exactly one handler, of
\* CatchType::Any and without finally; its span starts before the code of
\* the tried expression and ends right after it, at the jump past the
\* catch, and catch_pc is the position after that jump; a try in Normal
\* mode registers none.
C16_HandlerRecord ==
    RootTry /\ Compiled =>
        /\ Len(out.handlers) = HandledTries(prog.e)
        /\ \A j \in DOMAIN out.handlers :
              out.handlers[j].ctype = "Any" /\ out.handlers[j].finally = 0
        /\ RootHandled =>
              /\ RootHandler.try_start = 1
              /\ RootHandler.try_end = 1 + TriedLen
              /\ out.code[RootHandler.try_end] = [op |-> "jump", l |-> 1]
              /\ RootHandler.catch_pc = RootHandler.try_end + 1
              /\ out.labels[1].pos = Len(out.code) + 1
              /\ prog.e.mode = "Force" =>
                    /\ out.code[RootHandler.catch_pc] =
                           [op |-> "bailout", trap |-> "UNEXPECTED", pos |-> prog.e.id]
                    /\ Len(out.code) = RootHandler.catch_pc

\* a try inside a try: two handlers, the inner span inside the outer one
C16_NestedHandlers ==
    /\ RootHandled
    /\ Compiled
    /\ Len(out.handlers) = 2
    /\ out.handlers[1].try_end < out.handlers[2].try_end
    /\ out.handlers[1].catch_pc < out.handlers[2].try_end

\* the result of the tried expression of the root try, evaluated on its own
Tried == Eval(prog.e.expr, Sem0(env))
\* the calls made so far, without their positions
CallsMade == [k \in DOMAIN log |-> [f |-> log[k].f, args |-> log[k].args]]

\* C17: control is in the catch code only after the tried expression
\* raised; a tried expression that completes leaves its value in dest and
\* the alternative is not evaluated; after a raise, Else evaluates the
\* alternative into dest and finishes (unless the alternative raises
\* itself), Force ends in the UNEXPECTED trap of the try; TryMode::Opt makes
\* the generator panic with 'unsupported'.
C17_TryControlFlow ==
    RootTry =>
        /\ prog.e.mode = "Opt" =>
              /\ phase \in {"new", "panic"}
              /\ phase = "panic" => out.panic = "unsupported"
        /\ RootHandled /\ Compiled =>
              /\ Running /\ pc >= RootHandler.catch_pc => Tried.r = "throw"
              /\ Tried.r = "ok" =>
                    /\ ~Aborted
                    /\ phase = "done" =>
                          regs[prog.dest.r] = Tried.v /\ CallsMade = Tried.calls
              /\ Tried.r = "throw" =>
                    /\ phase \notin {"fault", "panic"}
                    /\ IF prog.e.mode = "Else"
                       THEN /\ phase = "trap" => Meaning.r = trap.kind
                            /\ phase = "unwound" => Meaning.r = "throw"
                            /\ phase = "done" =>
                                  /\ regs[prog.dest.r] = Meaning.v
                                  /\ CallsMade = Meaning.calls
                       ELSE /\ phase \notin {"done", "unwound"}
                            /\ phase = "trap" =>
                                  trap = [kind |-> "UNEXPECTED", pos |-> prog.e.id]

\* the tried call raised, and the alternative, a call, produced the result
C17_CaughtThenAlternative ==
    /\ RootHandled
    /\ prog.e.mode = "Else"
    /\ prog.e.alt.k = "Call"
    /\ Tried.r = "throw"
    /\ phase = "done"
    /\ Len(log) = 2
    /\ regs[prog.dest.r] = Meaning.v

\* the tried call raised under Force: the UNEXPECTED trap
C17_ForcedTrap ==
    /\ RootHandled
    /\ prog.e.mode = "Force"
    /\ Tried.r = "throw"
    /\ phase = "trap"
    /\ trap.kind = "UNEXPECTED"

\* the root expression is a constructor call: argument 0 is SelfieNew
IsCtorCall ==
    /\ prog.e.k = "Call"
    /\ Len(prog.e.csite.args) > 0
    /\ prog.e.csite.args[1].kind = "SelfieNew"
CtorClass == prog.e.csite.args[1].cls_id
CtorSlot == TempOffset(prog.e.csite.args[1].offset)

\* positions of: the gc_alloc call, the OOM test, the VTable store, the
\* spill of the new object to its argument slot
AllocCalls == {k \in Calls : out.code[k].ptr = NativeStubPtr("gc_alloc")}
OomLabels == {out.bailouts[k].l : k \in {j \in DOMAIN out.bailouts :
                                           out.bailouts[j].trap = "OOM"}}
OomTests == {k \in DOMAIN out.code :
                out.code[k].op = "test_jump" /\ out.code[k].l \in OomLabels}
VTableStores == {k \in DOMAIN out.code :
                    /\ out.code[k].op = "store"
                    /\ out.code[k].m = BaseMem(REG_RESULT, 0)}
CtorSpills == {k \in DOMAIN out.code :
                  out.code[k].op = "store" /\ out.code[k].m = LocalMem(CtorSlot)}

\* C18: the code of a SelfieNew argument is, in this order, the gc_alloc
\* call, the OOM check on the result, the store of the class's VTable
\* pointer at offset 0 of the new object, and then the spill to the
\* argument slot; every later argument, the marshalling and the constructor
\* call come after the spill, so the new object is never in a slot or
\* passed to a call without its VTable pointer, and an allocation that
\* returns null ends in the OOM trap.
C18_VTableBeforeEscape ==
    IsCtorCall /\ Compiled =>
        /\ Cardinality(AllocCalls) = 1 /\ Cardinality(OomTests) = 1
        /\ Cardinality(VTableStores) = 1 /\ Cardinality(CtorSpills) = 1
        /\ \A a \in AllocCalls, t \in OomTests, v \in VTableStores, s \in CtorSpills :
              /\ a < t /\ t < v - 1 /\ s = v + 1
              /\ out.code[t].r = prog.dest.r /\ out.code[t].cc = "Zero"
              /\ out.code[v - 1] =
                     [op |-> "const", d |-> REG_TMP1, v |-> VTableAddr(CtorClass)]
              /\ out.code[v].s = REG_TMP1
              /\ out.code[s].s = REG_RESULT
              /\ \A k \in Calls \ {a} : k > s
              /\ \A k \in DOMAIN out.code :
                    out.code[k].op = "load" /\ out.code[k].m.base = "fp" => k > s
        /\ ReadFrame(frame, CtorSlot) = NEW_ADDR => heap[NEW_ADDR] = VTableAddr(CtorClass)
        /\ Running /\ Instr.op = "call" /\ pc \notin AllocCalls =>
              heap[NEW_ADDR] = VTableAddr(CtorClass)
        /\ env.oom =>
              /\ phase \notin {"done", "fault"}
              /\ phase = "trap" => trap = [kind |-> "OOM", pos |-> prog.e.id]
              /\ Len(log) <= 1

\* the constructor is entered with the new object, its VTable pointer set,
\* after a later argument made a call of its own
C18_ConstructorEntered ==
    /\ IsCtorCall
    /\ AtRootCall
    /\ Len(log) = 2
    /\ regs[REG_PARAMS[1]] = NEW_ADDR
    /\ heap[NEW_ADDR] = VTableAddr(CtorClass)

\* the allocator returned null: the OOM trap
C18_OutOfMemory ==
    /\ IsCtorCall
    /\ env.oom
    /\ phase = "trap"
    /\ trap.kind = "OOM"

\* C19: a constructor call yields the allocated instance: the last
\* instruction reloads dest from the slot argument 0 was spilled to, the
\* slot stays a GC root from the spill to the end of the call and is freed
\* afterwards, and the completed call leaves the new object in dest whatever
\* the constructor left in REG_RESULT.
C19_ConstructorYieldsInstance ==
    IsCtorCall /\ Compiled =>
        /\ out.code[Len(out.code)].op = "load"
        /\ out.code[Len(out.code)].d = prog.dest.r
        /\ out.code[Len(out.code)].m = LocalMem(CtorSlot)
        /\ out.code[Len(out.code)].mode = "Ptr"
        /\ \A s \in CtorSpills, k \in DOMAIN out.gcpoints :
              out.gcpoints[k].pos > s => CtorSlot \in out.gcpoints[k].refs
        /\ CtorSlot \notin out.temps
        /\ phase = "done" => regs[prog.dest.r] = NEW_ADDR

\* the constructor returned with another value in REG_RESULT, a collection
\* ran at each call, and dest = REG_RESULT holds the new object
C19_InstanceInResult ==
    /\ IsCtorCall
    /\ phase = "done"
    /\ env.gc
    /\ prog.dest.r = REG_RESULT
    /\ log[Len(log)].f = "ctor"
    /\ RetVal("ctor", log[Len(log)].args, heap) # NEW_ADDR
    /\ regs[REG_RESULT] = NEW_ADDR

\* the root expression is an element read or an element write of an array
IsArrayGet == prog.e.k = "Array" /\ intrinsic(prog.e) # "none"
IsArraySet ==
    /\ prog.e.k = "Assign"
    /\ prog.e.lhs.k = "Array"
    /\ intrinsic(prog.e) # "none"
ArrayNode == IF IsArrayGet THEN prog.e ELSE prog.e.lhs
\* the operands as the language evaluates them
ArrayOperandsOk ==
    /\ Eval(ArrayNode.object, Sem0(env)).r = "ok"
    /\ Eval(ArrayNode.index, Sem0(env)).r = "ok"
    /\ IsArraySet => Eval(prog.e.rhs, Sem0(env)).r = "ok"
ArrayBase == Eval(ArrayNode.object, Sem0(env)).v
ArrayIndex == Eval(ArrayNode.index, Sem0(env)).v
ArrayValue == Eval(prog.e.rhs, Sem0(env)).v
IndexInRange ==
    ArrayIndex >= 0 /\ ArrayIndex < InitHeap(env)[ArrayBase + HEADER_SIZE]
ArrayElemMode == ElemMode(intrinsic(prog.e))
\* the addresses of the elements of the three arrays
ElemAddrs ==
    {ElemAddr(ARR_ADDR, "Int32", n) : n \in 0..1}
    \cup {ElemAddr(LARR_ADDR, "Int64", n) : n \in 0..1}
    \cup {ElemAddr(BARR_ADDR, "Int8", n) : n \in 0..1}
BoundsChecks == {k \in DOMAIN out.code : out.code[k].op = "check_bounds"}
ElemAccesses == {k \in DOMAIN out.code : out.code[k].op \in {"load_elem", "store_elem"}}

\* C20: with bounds checks enabled an array get or set has one bounds
\* check, after the code of the object, the index and (for a set) the value
\* and before the element access, on the registers the access uses; an index
\* out of range ends in the INDEX_OUT_OF_BOUNDS trap at the position of the
\* expression with no element read or written; an index in range reads or
\* writes exactly that element in the element's machine mode; with
\* flag_omit_bounds_check set no check is emitted.
C20_BoundsCheck ==
    (IsArrayGet \/ IsArraySet) /\ Compiled =>
        /\ Cardinality(ElemAccesses) = 1
        /\ prog.omit => BoundsChecks = {}
        /\ ~prog.omit => Cardinality(BoundsChecks) = 1
        /\ \A a \in ElemAccesses :
              /\ out.code[a].op = IF IsArrayGet THEN "load_elem" ELSE "store_elem"
              /\ out.code[a].mode = ArrayElemMode
              /\ \A c \in BoundsChecks :
                    /\ c < a /\ a - c <= 2
                    /\ out.code[c].arr = out.code[a].arr
                    /\ out.code[c].idx = out.code[a].idx
                    /\ out.code[c].pos = prog.e.id
                    /\ \A k \in Calls : k < c
                    /\ \A k \in (c + 1)..(a - 1) :
                          /\ out.code[k].op = "load"
                          /\ out.code[k].d \notin {out.code[a].arr, out.code[a].idx}
              /\ Running /\ pc = a /\ ~prog.omit =>
                    /\ regs[Instr.arr] = ArrayBase
                    /\ regs[Instr.idx] = ArrayIndex
                    /\ IndexInRange
        /\ ArrayOperandsOk /\ ~IndexInRange /\ ~prog.omit =>
              /\ phase # "done" /\ phase # "fault"
              /\ pc \notin ElemAccesses /\ \A a \in ElemAccesses : pc < a
              /\ phase = "trap" =>
                    trap = [kind |-> "INDEX_OUT_OF_BOUNDS", pos |-> prog.e.id]
              /\ \A addr \in ElemAddrs : heap[addr] = InitHeap(env)[addr]
        /\ ArrayOperandsOk /\ IndexInRange =>
              /\ phase \notin {"trap", "fault"}
              /\ phase = "done" =>
                    LET elem == ElemAddr(ArrayBase, ArrayElemMode, ArrayIndex)
                    IN IF IsArrayGet
                       THEN /\ regs[prog.dest.r] = InitHeap(env)[elem]
                            /\ \A addr \in ElemAddrs : heap[addr] = InitHeap(env)[addr]
                       ELSE /\ regs[prog.dest.r] = ArrayValue
                            /\ \A addr \in ElemAddrs :
                                  heap[addr] = IF addr = elem THEN ArrayValue
                                               ELSE InitHeap(env)[addr]

\* a checked write to a LongArray with the index out of range: the trap,
\* reached after the index made a call
C20_OutOfRangeWriteTrapped ==
    /\ IsArraySet
    /\ ~prog.omit
    /\ ArrayElemMode = "Int64"
    /\ Len(log) = 1
    /\ phase = "trap"
    /\ trap.kind = "INDEX_OUT_OF_BOUNDS"

\* an unchecked read of element 1 of a ByteArray
C20_UncheckedRead ==
    /\ IsArrayGet
    /\ prog.omit
    /\ ArrayElemMode = "Int8"
    /\ ArrayIndex = 1
    /\ phase = "done"
    /\ regs[prog.dest.r] = 32

\* a checked write of element 1 of an IntArray
C20_CheckedWrite ==
    /\ IsArraySet
    /\ ~prog.omit
    /\ ArrayElemMode = "Int32"
    /\ ArrayIndex = 1
    /\ phase = "done"
    /\ heap[ARR_ADDR + 20] = ArrayValue

\* the operand subexpressions of e, in source order
Operands(e) ==
    CASE e.k = "Un" -> <<e.opnd>>
      [] e.k = "Bin" -> <<e.lhs, e.rhs>>
      [] e.k = "Assign" ->
         IF e.lhs.k = "Array" THEN <<e.lhs.object, e.lhs.index, e.rhs>>
         ELSE IF e.lhs.k = "Field" THEN <<e.lhs.object, e.rhs>>
         ELSE <<e.rhs>>
      [] e.k = "Call" ->
         IF intrinsic(e) = "none"
         THEN [k \in 1..Len(SelectSeq(e.csite.args, LAMBDA a : a.kind = "Expr")) |->
                  SelectSeq(e.csite.args, LAMBDA a : a.kind = "Expr")[k].ast]
         ELSE (IF e.object.id = 0 THEN <<>> ELSE <<e.object>>) \o e.args
      [] e.k = "Array" -> <<e.object, e.index>>
      [] e.k = "Field" -> <<e.object>>
      [] e.k = "Conv" -> <<e.object>>
      [] e.k = "Try" -> IF e.mode = "Else" THEN <<e.expr, e.alt>> ELSE <<e.expr>>
      [] OTHER -> <<>>

\* e is lowered to a call of its own
OwnCall(e) ==
    \/ e.k \in {"Un", "Bin", "Call", "Array", "Assign"}
          /\ e.call.some /\ intrinsic(e) = "none"
    \/ e.k = "Assign" /\ e.lhs.k = "Array" /\ intrinsic(e) = "none"
    \/ e.k = "Delegation"

\* the positions of the calls of e in source order: the allocation of a
\* constructor call, the calls of the operands from left to right, then the
\* call of e itself
RECURSIVE CallsInOrder(_)
RECURSIVE CallsOfOperands(_, _)
CallsOfOperands(ops, k) ==
    IF k > Len(ops) THEN <<>>
    ELSE CallsInOrder(ops[k]) \o CallsOfOperands(ops, k + 1)
CallsInOrder(e) ==
    (IF e.k = "Call" /\ Len(e.csite.args) > 0 /\ e.csite.args[1].kind = "SelfieNew"
     THEN <<e.id>> ELSE <<>>)
    \o CallsOfOperands(Operands(e), 1)
    \o (IF OwnCall(e) THEN <<e.id>> ELSE <<>>)

\* e has a unary operator that is lowered to a call
RECURSIVE HasUnCall(_)
HasUnCall(e) ==
    \/ e.k = "Un" /\ intrinsic(e) = "none"
    \/ \E k \in DOMAIN Operands(e) : HasUnCall(Operands(e)[k])

\* the spills of the operands of an array set
ArraySetSpills ==
    {TempOffset(prog.e.lhs.object.slot), TempOffset(prog.e.lhs.index.slot),
     TempOffset(prog.e.rhs.slot)}

\* C21: the calls in the emitted code are in source order, the operands of
\* every expression from left to right (lhs before rhs, receiver and
\* arguments in call-site order, receiver of a field assignment before the
\* right-hand side, object before index before right-hand side), and so are
\* the calls a run made; an intrinsic array set spills object, index and
\* value in this order to three slots of their own and no slot is live
\* afterwards.  (Unary operators lowered to a call are the subject of C28.)
C21_LeftToRight ==
    Compiled /\ ~HasUnCall(prog.e) =>
        /\ [k \in DOMAIN out.linenos |-> out.linenos[k].line] = CallsInOrder(prog.e)
        /\ \A j, k \in DOMAIN out.linenos :
              j < k => out.linenos[j].pos < out.linenos[k].pos
        /\ \A j, k \in DOMAIN log : j < k => log[j].at < log[k].at
        /\ IsArraySet =>
              /\ Cardinality(ArraySetSpills) = 3
              /\ \A off \in ArraySetSpills :
                    Cardinality({k \in DOMAIN out.code :
                                    /\ out.code[k].op = "store"
                                    /\ out.code[k].m = LocalMem(off)}) = 1
              /\ \A a, b \in DOMAIN out.code :
                    /\ out.code[a].op = "store" /\ out.code[b].op = "store"
                    /\ out.code[a].m = LocalMem(TempOffset(prog.e.lhs.object.slot))
                    /\ out.code[b].m \in {LocalMem(TempOffset(prog.e.lhs.index.slot)),
                                           LocalMem(TempOffset(prog.e.rhs.slot))}
                    => a < b
              /\ \A a, b \in DOMAIN out.code :
                    /\ out.code[a].op = "store" /\ out.code[b].op = "store"
                    /\ out.code[a].m = LocalMem(TempOffset(prog.e.lhs.index.slot))
                    /\ out.code[b].m = LocalMem(TempOffset(prog.e.rhs.slot))
                    => a < b
              /\ out.temps = {}

\* a binary operator whose two operands call different functions: both
\* calls made, the left one first
C21_LeftCallFirst ==
    /\ prog.e.k = "Bin"
    /\ intrinsic(prog.e) # "none"
    /\ phase = "done"
    /\ Len(log) = 2
    /\ log[1].f # log[2].f
    /\ prog.e.lhs.k = "Call" /\ log[1].f = prog.e.lhs.call.fid
    /\ prog.e.rhs.k = "Call" /\ log[2].f = prog.e.rhs.call.fid

\* an array set whose index and right-hand side both call
C21_ArraySetInOrder ==
    /\ IsArraySet
    /\ phase = "done"
    /\ Len(log) = 2
    /\ log[1].f # log[2].f
    /\ prog.e.lhs.index.k = "Call" /\ log[1].f = prog.e.lhs.index.call.fid

\* the subexpressions of e, e included
RECURSIVE SubExprs(_)
SubExprs(e) == {e} \cup UNION {SubExprs(Operands(e)[k]) : k \in DOMAIN Operands(e)}

\* the line-number records of the call at position p
CallsEmittedAt(p) == {k \in DOMAIN out.linenos : out.linenos[k].line = p}

\* a call that is not a constructor call
PlainCall(x) ==
    /\ x.k = "Call"
    /\ OwnCall(x)
    /\ ~(Len(x.csite.args) > 0 /\ x.csite.args[1].kind = "SelfieNew")

\* the calls a run made from the call instructions of the node at p
CallsMadeAt(p) ==
    {k \in DOMAIN log : \E j \in CallsEmittedAt(p) : out.linenos[j].pos = log[k].at + 1}

\* C28: the code of each operand is emitted exactly once: a call that is a
\* subexpression of the compiled expression has one call instruction in the
\* code, and a run makes that call at most once.
C28_OperandEmittedOnce ==
    Compiled =>
        \A x \in SubExprs(prog.e) :
            PlainCall(x) =>
                /\ Cardinality(CallsEmittedAt(x.id)) = 1
                /\ Cardinality(CallsMadeAt(x.id)) <= 1

\* every expression without a unary operator lowered to a call emits each
\* of its calls once
C28_OnceWithoutUnaryCall ==
    Compiled /\ ~HasUnCall(prog.e) =>
        \A x \in SubExprs(prog.e) :
            PlainCall(x) =>
                /\ Cardinality(CallsEmittedAt(x.id)) = 1
                /\ Cardinality(CallsMadeAt(x.id)) <= 1

\* e has a subexpression that is not a float literal or float arithmetic
RECURSIVE HasFloatLoad(_)
HasFloatLoad(e) ==
    \/ e.k \notin {"LitFloat", "Bin"}
    \/ \E k \in DOMAIN Operands(e) : HasFloatLoad(Operands(e)[k])

\* the compiled expression is float-typed and its destination is an FReg
FloatInFReg == is_float(prog.e.ty) /\ prog.dest.kind = "FReg"

\* C22: emit_expr of a float-typed expression into a floating-point
\* register completes, whatever the form of the expression, and the code
\* leaves the value in that register.
C22_FloatIntoFReg ==
    FloatInFReg /\ phase # "new" =>
        /\ out.panic = "none"
        /\ phase = "done" => regs[prog.dest.r] = Meaning.v

\* the float forms that do compile: literals and arithmetic on literals
C22_FloatLiteralArithmetic ==
    /\ FloatInFReg /\ phase # "new" /\ ~HasFloatLoad(prog.e) =>
          /\ out.panic = "none"
          /\ phase = "done" => regs[prog.dest.r] = Meaning.v
    /\ FloatInFReg /\ phase # "new" /\ HasFloatLoad(prog.e) =>
          out.panic = "unreachable"

\* the intrinsics emit_call has an arm for
CallIntrinsics ==
    {"ByteArrayLen", "IntArrayLen", "LongArrayLen", "Assert", "Shl", "SetUint8",
     "StrLen", "StrGet", "BoolToInt", "ByteToInt", "BoolToLong", "ByteToLong",
     "LongToByte", "LongToInt", "IntToByte", "IntToLong"} \cup BinCallIntrinsics

IsIntrinsicCall == prog.e.k = "Call" /\ intrinsic(prog.e) # "none"

\* C23: a call expression whose resolved target is an intrinsic of the
\* recognised set is lowered inline and the generator completes; a unary
\* operator, array access or array assignment resolved to an intrinsic its
\* dispatcher does not know panics and emits no call.
C23_IntrinsicCallCompletes ==
    phase # "new" =>
        /\ IsIntrinsicCall /\ intrinsic(prog.e) \in Intrinsics => out.panic = "none"
        /\ prog.e.k \in {"Un", "Array", "Assign"} /\ intrinsic(prog.e) = "IntAdd" =>
              out.panic = "unexpected intrinsic" /\ CallsEmittedAt(prog.e.id) = {}

\* what emit_call does with each intrinsic: the intrinsics without an arm
\* panic as unknown, ByteNot and BoolNot are passed to the binary emitter
\* and panic there, every other one completes without a call instruction of its own
C23_DispatchTable ==
    phase # "new" /\ IsIntrinsicCall =>
        LET f == intrinsic(prog.e)
        IN /\ f \notin CallIntrinsics => out.panic = "unknown intrinsic"
           /\ f \in {"ByteNot", "BoolNot"} => out.panic = "index out of bounds"
           /\ f \in CallIntrinsics \ {"ByteNot", "BoolNot"} =>
                 out.panic = "none" /\ CallsEmittedAt(prog.e.id) = {}

IsAssert == prog.e.k = "Call" /\ intrinsic(prog.e) = "Assert"
\* the argument of the assert as the language evaluates it
AssertArg == Eval(prog.e.args[1], Sem0(env))
AssertBailouts == {k \in DOMAIN out.bailouts : out.bailouts[k].trap = "ASSERT"}

\* C24: the code of assert(x) has one ASSERT bailout, at the position of
\* the assert call; a run ends in the ASSERT trap with that position
\* exactly when x evaluates to false, and runs to the end of the code
\* without a trap when x is true.
C24_AssertTraps ==
    IsAssert /\ Compiled =>
        /\ Cardinality(AssertBailouts) = 1
        /\ \A k \in AssertBailouts : out.bailouts[k].pos = prog.e.id
        /\ phase # "fault"
        /\ AssertArg.r = "ok" /\ AssertArg.v = 0 =>
              /\ phase # "done"
              /\ phase = "trap" => trap = [kind |-> "ASSERT", pos |-> prog.e.id]
        /\ AssertArg.r = "ok" /\ AssertArg.v # 0 => phase # "trap"

\* assert(a || f(..)) with both operands false: the trap, after the call
C24_AssertFailed ==
    /\ IsAssert
    /\ prog.e.args[1].k = "Bin"
    /\ Len(log) = 1
    /\ phase = "trap"
    /\ trap = [kind |-> "ASSERT", pos |-> prog.e.id]

\* an assert on a true argument falls through to the end of the code
C24_AssertPassed ==
    /\ IsAssert
    /\ AssertArg.v = 1
    /\ phase = "done"


----------------------------------------------------------------------------
(* The impl check.                                                          *)

ImplckDone == ximpl > Len(impls)

\* impl method j of impl i has a counterpart in the trait
InTrait(i, j) ==
    \E k \in DOMAIN xtrait :
        MethodMatches(xtrait[k], impls[i].methods[j].is_static, impls[i].methods[j].name,
                      impls[i].cls, impls[i].methods[j].params)

\* trait method k has a counterpart in impl i
InImpl(i, k) ==
    \E j \in DOMAIN impls[i].methods :
        MethodMatches(xtrait[k], impls[i].methods[j].is_static, impls[i].methods[j].name,
                      impls[i].cls, impls[i].methods[j].params)

NotInTraitDiags ==
    {[pos |-> MethodPos(i, j),
      msg |-> IF impls[i].methods[j].is_static THEN "StaticMethodNotInTrait"
              ELSE "MethodNotInTrait",
      name |-> impls[i].methods[j].name,
      args |-> impls[i].methods[j].params] :
        <<i, j>> \in {x \in (DOMAIN impls) \X (1..MaxImplMethods + 1) :
                         x[2] \in DOMAIN impls[x[1]].methods /\ ~InTrait(x[1], x[2])}}

MissingDiags ==
    {[pos |-> ImplPos(i),
      msg |-> IF xtrait[k].is_static THEN "StaticMethodMissingFromTrait"
              ELSE "MethodMissingFromTrait",
      name |-> xtrait[k].name,
      args |-> xtrait[k].params] :
        <<i, k>> \in {x \in (DOMAIN impls) \X (DOMAIN xtrait) : ~InImpl(x[1], x[2])}}

\* C25: when the check has gone through every impl, the diagnostics are one
\* (Static)MethodNotInTrait at the position of every impl method that matches
\* no method of the trait by static-ness, name and parameter types with Self
\* bound to the implementing class, one (Static)MethodMissingFromTrait at the
\* position of the impl for every trait method no method of that impl matches,
\* and nothing else; every impl method that matches has the trait method it
\* matches as its impl_for and every other impl method has none.
C25_ImplConformsToTrait ==
    ImplckDone /\ impls # <<>> =>
        /\ Len(diag) = Cardinality(NotInTraitDiags \cup MissingDiags)
        /\ {diag[k] : k \in DOMAIN diag} = NotInTraitDiags \cup MissingDiags
        /\ \A i \in DOMAIN impls : \A j \in DOMAIN impls[i].methods :
              IF InTrait(i, j)
              THEN /\ impl_for[i][j] \in DOMAIN xtrait
                   /\ MethodMatches(xtrait[impl_for[i][j]], impls[i].methods[j].is_static,
                                    impls[i].methods[j].name, impls[i].cls,
                                    impls[i].methods[j].params)
              ELSE impl_for[i][j] = 0

\* a finished check that reported a method not in the trait and, for a second
\* impl, a trait method the first impl defines but the second does not
C25_BothDiagnostics ==
    /\ ImplckDone
    /\ Len(impls) = 2
    /\ \E k \in DOMAIN diag : diag[k].msg = "MethodNotInTrait" /\ diag[k].pos = MethodPos(1, 2)
    /\ \E k \in DOMAIN diag : diag[k].msg = "MethodMissingFromTrait" /\ diag[k].pos = ImplPos(2)
    /\ \E k \in DOMAIN xtrait : InImpl(1, k) /\ ~InImpl(2, k)

\* a finished check of an impl that implements a method of the trait taking
\* and returning Self as taking and returning the class: no diagnostic
C25_SelfBoundToClass ==
    /\ ImplckDone
    /\ impls # <<>>
    /\ diag = <<>>
    /\ \E j \in DOMAIN impls[1].methods :
          /\ impls[1].methods[j].params = <<"A">>
          /\ impls[1].methods[j].ret = "A"
          /\ impl_for[1][j] # 0
          /\ xtrait[impl_for[1][j]].params = <<"Self">>
          /\ xtrait[impl_for[1][j]].ret = "Self"


----------------------------------------------------------------------------
(* Call dispatch.                                                           *)

\* the compiled expression is lowered to a universal call of its call site
IsCallSite ==
    /\ prog.e.k \in {"Call", "Delegation"}
    /\ prog.e.k = "Call" => intrinsic(prog.e) = "none"
    /\ prog.dest.kind = "Reg"
Site == prog.e.csite
SiteFct == Fct(Site.callee.fid)

\* the call instructions emitted for the call site of the compiled expression
SiteCalls == {out.linenos[j].pos - 1 : j \in CallsEmittedAt(prog.e.id)}
\* those among them that allocate the object of a constructor call, and
\* the others
SiteAllocs ==
    {k \in SiteCalls : /\ out.code[k].kind = "direct"
                       /\ out.code[k].ptr = [k |-> "native", f |-> "gc_alloc"]}
DispatchCalls == SiteCalls \ SiteAllocs

\* the pointer the callee of the site resolves to statically
StaticPtr ==
    IF Site.callee.fid # SelfFct /\ SiteFct.kind = "Native"
    THEN [k |-> "native", f |-> NativePtr(Site.callee.fid)]
    ELSE IF SiteFct.has_jit THEN [k |-> "jit", f |-> Site.callee.fid]
    ELSE [k |-> "stub", f |-> "none"]

\* the callee of the site has no code a pointer could be resolved to
Unresolvable ==
    /\ Site.callee.kind = "Fct"
    /\ Site.callee.fid # SelfFct
    /\ SiteFct.kind \in {"Builtin", "Definition"}
    /\ Site.super_call \/ ~SiteFct.is_virtual

\* the call instruction k is the one the dispatch rules select for the site
SelectedCall(k) ==
    IF Site.callee.kind = "Ptr"
    THEN /\ out.code[k].kind = "direct"
         /\ out.code[k].ptr = [k |-> "native", f |-> Site.callee.ptr]
    ELSE IF Site.super_call \/ ~SiteFct.is_virtual
    THEN /\ out.code[k].kind = "direct"
         /\ out.code[k].fid = Site.callee.fid
         /\ out.code[k].ptr = StaticPtr
    ELSE /\ out.code[k].kind = "indirect"
         /\ out.code[k].ptr = SiteFct.vtable_index

\* C26 (as stated): a call site emits exactly one call instruction, the one
\* the dispatch rules select: direct to the statically resolved pointer for
\* a super call, indirect at the callee's vtable_index for a virtual callee,
\* direct to the JIT-or-stub pointer or the native stub otherwise, direct to
\* the native stub of the pointer for a Callee::Ptr site; the generator
\* panics when it has to resolve a Builtin or Definition callee.
C26_OneCallPerSite ==
    IsCallSite /\ phase # "new" =>
        /\ Unresolvable => out.panic \in {"intrinsic fct call", "unreachable"}
        /\ Compiled =>
              /\ ~Unresolvable
              /\ Cardinality(SiteCalls) = 1
              /\ \A k \in SiteCalls : SelectedCall(k)

\* C26 (amended): a call site emits exactly one call instruction for its
\* callee, selected by the dispatch rules as above; a constructor call site
\* (first argument SelfieNew) emits one more call before it, the direct call
\* of the native stub of gc_alloc, and no other call site emits an
\* allocation; resolving a Builtin or Definition callee panics.
C26_OneDispatchCallPerSite ==
    IsCallSite /\ phase # "new" =>
        /\ Unresolvable => out.panic \in {"intrinsic fct call", "unreachable"}
        /\ Compiled =>
              /\ ~Unresolvable
              /\ Cardinality(DispatchCalls) = 1
              /\ \A k \in DispatchCalls : SelectedCall(k)
              /\ Cardinality(SiteAllocs) = (IF IsCtorCall THEN 1 ELSE 0)
              /\ \A a \in SiteAllocs : \A k \in DispatchCalls : a < k

\* a super call of a virtual method ran: the call went directly to the
\* statically resolved method, not through the vtable of the receiver
C26_SuperCallOfVirtual ==
    /\ IsCallSite
    /\ phase = "done"
    /\ Site.super_call
    /\ SiteFct.is_virtual
    /\ \E k \in SiteCalls : out.code[k].kind = "direct" /\ out.code[k].ptr.k = "stub"
    /\ Len(log) = 1

\* a constructor call site was compiled: two call instructions
C26_ConstructorSite ==
    /\ IsCallSite
    /\ Compiled
    /\ IsCtorCall
    /\ Cardinality(SiteCalls) = 2


----------------------------------------------------------------------------
(* Comparison intrinsics.                                                   *)

\* the compiled expression is a comparison intrinsic, as the target of a
\* binary operator or of a method call
IsCompare ==
    /\ prog.e.k \in {"Bin", "Call"}
    /\ intrinsic(prog.e) \in EqIntrinsics \cup CmpIntrinsics
    /\ prog.dest.kind = "Reg"
OperatorForm == prog.e.k = "Bin"
CompareLhs == IF OperatorForm THEN prog.e.lhs ELSE prog.e.object
FloatCompare == mode(CompareLhs.ty) \in {"Float32", "Float64"}
LhsReg == IF FloatCompare THEN FREG_RESULT ELSE REG_RESULT
RhsReg == IF FloatCompare THEN FREG_TMP1 ELSE REG_TMP1

\* the condition code of a comparison operator
CondOf(op) ==
    CASE op = "Eq" -> "Equal"
      [] op = "Ne" -> "NotEqual"
      [] op = "Lt" -> "Less"
      [] op = "Le" -> "LessEq"
      [] op = "Gt" -> "Greater"
      [] op = "Ge" -> "GreaterEq"

\* the code ends with the comparison of the operands and the set of dest
\* from the condition code cc
ComparesAndSets(cc) ==
    /\ Len(out.code) >= 2
    /\ out.code[Len(out.code) - 1] = [op |-> "cmp_reg", a |-> LhsReg, b |-> RhsReg]
    /\ out.code[Len(out.code)] = [op |-> "set", d |-> prog.dest.r, cc |-> cc]

\* the code ends with the subtraction lhs - rhs into dest and sets no
\* register from a condition code
Subtracts ==
    /\ Len(out.code) >= 1
    /\ out.code[Len(out.code)].op = "alu"
    /\ out.code[Len(out.code)].f = "sub"
    /\ out.code[Len(out.code)].d = prog.dest.r
    /\ out.code[Len(out.code)].a = LhsReg
    /\ out.code[Len(out.code)].b = RhsReg
    /\ \A k \in DOMAIN out.code : out.code[k].op # "set"

C27_CompareToSubtracts ==
    /\ IsCompare
    /\ ~OperatorForm
    /\ intrinsic(prog.e) = "IntCmp"
    /\ Compiled
    /\ Subtracts


----------------------------------------------------------------------------
(* x.compareTo(y) on the integer types.                                     *)

\* a run of the method-call form of ByteCmp, IntCmp or LongCmp has finished
CompareToDone ==
    /\ IsCompare
    /\ ~OperatorForm
    /\ intrinsic(prog.e) \in {"ByteCmp", "IntCmp", "LongCmp"}
    /\ prog.e.object.k = "LitInt"
    /\ prog.e.args[1].k = "LitInt"
    /\ phase = "done"
CompareToLhs == prog.e.object.value
CompareToRhs == prog.e.args[1].value

\* C29: the value x.compareTo(y) leaves in dest is negative, zero or
\* positive exactly when x is less than, equal to or greater than y, for
\* all operand values of the machine width.
C29_CompareToSign ==
    CompareToDone =>
        /\ regs[prog.dest.r] < 0 <=> CompareToLhs < CompareToRhs
        /\ regs[prog.dest.r] = 0 <=> CompareToLhs = CompareToRhs
        /\ regs[prog.dest.r] > 0 <=> CompareToLhs > CompareToRhs

\* the sign is right when both operands are negative or both are not, so
\* that the difference fits in the register
C29_SignWhenDifferenceFits ==
    CompareToDone /\ (CompareToLhs < 0 <=> CompareToRhs < 0) =>
        /\ regs[prog.dest.r] < 0 <=> CompareToLhs < CompareToRhs
        /\ regs[prog.dest.r] = 0 <=> CompareToLhs = CompareToRhs
        /\ regs[prog.dest.r] > 0 <=> CompareToLhs > CompareToRhs

\* apart from a compareTo whose difference does not fit and a unary operator
\* lowered to a call, finished code leaves the value of the expression in dest
C1_ValueInDestElsewhere ==
    Finished /\ HasValue /\ regs[prog.dest.r] # Meaning.v =>
        \/ prog.e.k = "Un" /\ intrinsic(prog.e) = "none"
        \/ CompareToDone /\ ~(CompareToLhs < 0 <=> CompareToRhs < 0)


----------------------------------------------------------------------------
(* Nested tries.                                                            *)

\* handler j covers the return address ra; its span lies within that of k
Covers(j, ra) == out.handlers[j].try_start < ra /\ ra <= out.handlers[j].try_end
SpanWithin(j, k) ==
    /\ out.handlers[k].try_start <= out.handlers[j].try_start
    /\ out.handlers[j].try_end <= out.handlers[k].try_end

\* the root try has a handled try as its tried expression, or as its
\* alternative
TryInTried ==
    RootHandled /\ prog.e.expr.k = "Try" /\ prog.e.expr.mode \in {"Else", "Force"}
TryInAlternative ==
    /\ RootTry
    /\ prog.e.mode = "Else"
    /\ prog.e.alt.k = "Try"
    /\ prog.e.alt.mode \in {"Else", "Force"}
\* their handlers: each try registers its handler after those of its parts
TriedHandler == out.handlers[HandledTries(prog.e.expr)]
AlternativeHandler == out.handlers[HandledTries(prog.e.expr) + HandledTries(prog.e.alt)]

\* C30: the handler of a try nested in the tried expression of a try is
\* registered before the handler of the outer try and its span lies within
\* the outer span; the span of a try nested in the alternative of a
\* try-else starts at or after the outer catch_pc and is disjoint from the
\* outer span; of two handlers that cover a position, the one registered
\* first has the inner span, so that the first handler found for a raise
\* is the innermost one, and the run yields what the nested tries mean (a
\* raise that no try encloses leaves the function).
C30_NestedHandlers ==
    RootTry /\ Compiled =>
        /\ TryInTried =>
              /\ HandledTries(prog.e.expr) < Len(out.handlers)
              /\ SpanWithin(HandledTries(prog.e.expr), Len(out.handlers))
              /\ TriedHandler.try_end < RootHandler.try_end
        /\ TryInAlternative =>
              /\ AlternativeHandler.try_start >= RootHandler.catch_pc
              /\ AlternativeHandler.try_start >= RootHandler.try_end
              /\ \A ra \in 1..(Len(out.code) + 1) :
                    ~(Covers(Len(out.handlers), ra)
                      /\ Covers(Len(out.handlers) - 1, ra))
        /\ \A ra \in 1..(Len(out.code) + 1) : \A j, k \in HandlersFor(ra) :
              j < k => SpanWithin(j, k) /\ ~SpanWithin(k, j)
        /\ TryInTried \/ TryInAlternative =>
              /\ phase = "done" =>
                    /\ Meaning.r = "ok"
                    /\ regs[prog.dest.r] = Meaning.v
                    /\ CallsMade = Meaning.calls
              /\ phase = "trap" => Meaning.r = trap.kind
              /\ phase = "unwound" => Meaning.r = "throw" /\ CallsMade = Meaning.calls
              /\ phase # "fault"

\* the call tried by the inner try raised inside both spans and the inner
\* alternative produced the result: the inner handler was found first
C30_InnermostFirst ==
    /\ TryInTried
    /\ prog.e.expr.mode = "Else"
    /\ Len(out.handlers) = 2
    /\ phase = "done"
    /\ Len(log) = 2
    /\ HandlersFor(log[1].at + 1) = {1, 2}
    /\ regs[prog.dest.r] = 2

\* the try in the alternative of a try-else caught a raise of its own
C30_CaughtInAlternative ==
    /\ TryInAlternative
    /\ prog.e.alt.mode = "Else"
    /\ phase = "done"
    /\ Len(log) = 3
    /\ HandlersFor(log[1].at + 1) = {2}
    /\ HandlersFor(log[2].at + 1) = {1}
    /\ regs[prog.dest.r] = 3

====
